---- MODULE Spec2Model ----
(***************************************************************************)
(* State-machine model of the on-chain core of the Ainur marketplace:      *)
(* the escrow pallet (chain-v2/pallets/escrow), the DID pallet it reads,   *)
(* the currency it drives, and the VCG auction pallet.                     *)
(*                                                                         *)
(* Every dispatchable is an operator from the storage at the start of the  *)
(* extrinsic to a result [ok, err, s]: s is the storage as the body left   *)
(* it, partial writes included.  The #[pallet::call] storage layer then    *)
(* commits s on Ok and discards it on Err (with_storage_layer).            *)
(***************************************************************************)
EXTENDS Integers, Sequences, FiniteSets, TLC

(***************************************************************************)
(* Bounds of the model and constants of the runtime.                       *)
(***************************************************************************)
MaxBlock == 1                 \* block numbers explored: 0..MaxBlock
InitialBalance == 61          \* free balance of every signer at genesis
MaxBatchLen == 2              \* longest batch argument explored
MaxMilestonesPerEscrow == 1   \* milestones added to one escrow
MaxParticipantAdds == 1       \* add_participant calls per participant account
MaxBids == 3                  \* longest bid list handed to run_vcg_auction
MaxAuctions == 1              \* auctions created
MaxAuctionIds == 3            \* auctions created in SpecLifecycle
MaxTemplates == 2             \* templates created
BlockStride == 25             \* blocks passing between extrinsics where stages are timed
LastStride == 8               \* strides explored: blocks 0, 25, .., 200
StakeBalance == 201           \* free balance of every signer where stakes are bonded
MaxStaked == 200              \* stake up to which bonds are explored
MaxSlashed == 50              \* slashed total up to which severe slashes are explored
MaxSuccesses == 230           \* successes reported for one agent
MaxFailures == 3              \* failures reported for one agent

ExistentialDeposit == 1
DefaultTimeout == 1000
MaxEscrowAmount == 1000000
MaxParticipants == 10
MaxMilestones == 20
MaxBatchSize == 50
DefaultFeePercent == 5
GenesisBalance == 10000
MaxTemplatesPerCreator == 100
MaxIndexLen == 1000
MaxApprovers == 10
MinimumBidAmount == 10
MaxCapabilities == 20
MaxBidsPerAuction == 100
DefaultAuctionDuration == 100
MaxAuctionsPerAgent == 1000
MaxAgentsPerCapability == 1000
MinReputationStake == 100
MaxReputationScore == 1000
StartingReputation == 500
ReputationLoss == 20

Signers == {"alice", "bob"}
ProtocolFeeAccount == "fee"
TreasuryAccount == "treasury"
Accounts == Signers \cup {ProtocolFeeAccount, TreasuryAccount}
\* the origins OrchestratorOrigin and SlashingOrigin accept
OrchestratorOrigin == "orchestrator"
SlashingOrigin == "governance"
NoAccount == "none"
Tasks == {"t1", "t2"}
AgentDid == "did:ainur:agent"
Dids == {AgentDid}
PublicKeys == {"key1", "key2"}
\* account ids of the auction runtime and their SCALE encoding, which
\* place_bid takes as the bidder's DID: the ids of ann, ben and cat are byte
\* strings that start with did:ainur:, the id of dan is not (as no u64 id is)
AuctionSigners == {"ann", "ben", "cat", "dan"}
Encode(who) ==
    CASE who = "ann" -> "did:ainur:ann"
      [] who = "ben" -> "did:ainur:ben"
      [] who = "cat" -> "did:ainur:cat"
      [] who = "dan" -> "id:dan"
      [] OTHER -> "id:other"
\* the byte strings of the model that start with did:ainur:
DidPrefixed == {AgentDid} \cup {Encode(who) : who \in {"ann", "ben", "cat"}}
Amounts == {30}
None == [some |-> FALSE]
Some(v) == [some |-> TRUE, v |-> v]
Timeouts == {None, Some(1)}

VARIABLES
    now,                \* frame_system block number
    free,               \* pallet_balances: free balance per account
    reserved,           \* pallet_balances: reserved balance per account
    escrows,            \* Escrows: task_id -> EscrowDetails
    policies,           \* EscrowRefundPolicies: task_id -> RefundPolicy
    userEscrows,        \* UserEscrows: account -> list of task ids
    agentEscrows,       \* AgentEscrows: did -> list of task ids
    participantEscrows, \* ParticipantEscrows: account -> list of task ids
    batchCounters,      \* BatchOperationCounters: <<batches, operations>>
    batchInProgress,    \* BatchOperationsInProgress: set of batch ids
    didDocuments,       \* pallet_did DidDocuments: did -> DidDocument
    accountToDid,       \* pallet_did AccountToDid: account -> did
    agentCards,         \* pallet_registry AgentCards: did -> AgentCard
    capabilityIndex,    \* pallet_registry CapabilityIndex: capability -> dids
    auctions,           \* pallet_vcg_auction Auctions: auction id -> Auction
    nextAuctionId,      \* pallet_vcg_auction NextAuctionId
    agentAuctionIndex,  \* pallet_vcg_auction AgentAuctionIndex: did -> auction ids
    reputationStakes,   \* pallet_reputation ReputationStakes: account -> stake
    escrowTemplates,    \* EscrowTemplates: template id -> EscrowTemplate
    nextTemplateId,     \* NextTemplateId
    templatesByCreator, \* TemplatesByCreator: account -> template ids
    events,             \* events deposited by the latest extrinsic
    bids,               \* the bid list handed to run_vcg_auction
    vcg_result,         \* what run_vcg_auction returned for it, if it has run
    paidOut,            \* history: funds that left the user per escrow
    before,             \* history: balances at the start of the latest extrinsic
    last                \* the latest extrinsic: call, caller, arguments, outcome

vars == <<now, free, reserved, escrows, policies, userEscrows, agentEscrows,
          participantEscrows, batchCounters, batchInProgress, didDocuments,
          accountToDid, agentCards, capabilityIndex, auctions, nextAuctionId,
          agentAuctionIndex, reputationStakes,
          escrowTemplates, nextTemplateId, templatesByCreator,
          events, bids, vcg_result, paidOut, before, last>>

(***************************************************************************)
(* The storage as one record, the form the dispatchables work on.          *)
(***************************************************************************)
Storage ==
    [now |-> now, free |-> free, reserved |-> reserved, escrows |-> escrows,
     policies |-> policies, userEscrows |-> userEscrows,
     agentEscrows |-> agentEscrows, participantEscrows |-> participantEscrows,
     batchCounters |-> batchCounters, batchInProgress |-> batchInProgress,
     didDocuments |-> didDocuments, accountToDid |-> accountToDid,
     agentCards |-> agentCards, capabilityIndex |-> capabilityIndex,
     auctions |-> auctions, nextAuctionId |-> nextAuctionId,
     agentAuctionIndex |-> agentAuctionIndex,
     reputationStakes |-> reputationStakes,
     escrowTemplates |-> escrowTemplates, nextTemplateId |-> nextTemplateId,
     templatesByCreator |-> templatesByCreator,
     events |-> <<>>, paidOut |-> paidOut]

Ok(s) == [ok |-> TRUE, err |-> "", s |-> s]
Err(e, s) == [ok |-> FALSE, err |-> e, s |-> s]

Insert(m, k, v) == [x \in (DOMAIN m) \cup {k} |-> IF x = k THEN v ELSE m[x]]
Min(a, b) == IF a < b THEN a ELSE b

\* what a transfer of value takes out of from: nothing when it pays itself
Moved(from, to, value) == IF from = to THEN 0 ELSE value

deposit_event(s, e) == [s EXCEPT !.events = Append(@, e)]

(***************************************************************************)
(* Currency (pallet_balances over frame_system accounts, as configured in  *)
(* mock.rs): reserve, unreserve and transfer.  An account with a reserved  *)
(* balance holds a consumer reference, so its free balance cannot drop     *)
(* below the existential deposit.                                          *)
(***************************************************************************)
reserve(s, who, value) ==
    IF value = 0 THEN Ok(s)
    ELSE IF s.free[who] < value THEN Err("InsufficientBalance", s)
    ELSE IF s.free[who] - value < ExistentialDeposit THEN Err("ConsumerRemaining", s)
    ELSE Ok([s EXCEPT !.free[who] = @ - value, !.reserved[who] = @ + value])

unreserve(s, who, value) ==
    LET actual == Min(s.reserved[who], value)
    IN [s EXCEPT !.reserved[who] = @ - actual, !.free[who] = @ + actual]

transfer(s, from, to, value, existence) ==
    IF value = 0 \/ from = to THEN Ok(s)
    ELSE IF s.free[from] < value THEN Err("FundsUnavailable", s)
    ELSE IF /\ s.free[from] - value < ExistentialDeposit
            /\ (existence = "KeepAlive" \/ s.reserved[from] > 0)
         THEN Err("NotExpendable", s)
    ELSE Ok([s EXCEPT !.free[from] = @ - value, !.free[to] = @ + value])

(***************************************************************************)
(* pallet_did: the predicate the escrow pallet reads.                      *)
(***************************************************************************)
is_did_active(s, did) ==
    IF did \in DOMAIN s.didDocuments THEN s.didDocuments[did].active ELSE FALSE

resolve_public_key(s, did) ==
    IF did \in DOMAIN s.didDocuments /\ s.didDocuments[did].active
    THEN Some(s.didDocuments[did].public_key)
    ELSE None

\* did.starts_with(b"did:ainur:"), over the byte strings of the model
starts_with_did_ainur(did) == did \in DidPrefixed

\* mutant: create_did without the DidAlreadyExists check
create_did_overwriting(s, who, did, public_key) ==
    IF ~starts_with_did_ainur(did) THEN Err("InvalidDidFormat", s)
    ELSE
        LET doc == [controller |-> who, public_key |-> public_key,
                    created_at |-> s.now, updated_at |-> s.now, active |-> TRUE]
            s1 == [s EXCEPT !.didDocuments = Insert(@, did, doc),
                            !.accountToDid = Insert(@, who, did)]
        IN Ok(deposit_event(s1, [name |-> "DidCreated", did |-> did]))

create_did(s, who, did, public_key) ==
    IF ~starts_with_did_ainur(did) THEN Err("InvalidDidFormat", s)
    ELSE IF did \in DOMAIN s.didDocuments THEN Err("DidAlreadyExists", s)
    ELSE
        LET doc == [controller |-> who, public_key |-> public_key,
                    created_at |-> s.now, updated_at |-> s.now, active |-> TRUE]
            s1 == [s EXCEPT !.didDocuments = Insert(@, did, doc),
                            !.accountToDid = Insert(@, who, did)]
        IN Ok(deposit_event(s1, [name |-> "DidCreated", did |-> did]))

\* mutant: update_key without the controller check
update_key_by_anyone(s, who, did, new_public_key) ==
    IF did \notin DOMAIN s.didDocuments THEN Err("DidNotFound", s)
    ELSE IF ~s.didDocuments[did].active THEN Err("DidInactive", s)
    ELSE
        LET s1 == [s EXCEPT !.didDocuments[did].controller = who,
                            !.didDocuments[did].public_key = new_public_key,
                            !.didDocuments[did].updated_at = s.now]
        IN Ok(deposit_event(s1, [name |-> "DidUpdated", did |-> did]))

update_key(s, who, did, new_public_key) ==
    IF did \notin DOMAIN s.didDocuments THEN Err("DidNotFound", s)
    ELSE IF s.didDocuments[did].controller # who THEN Err("NotDidController", s)
    ELSE IF ~s.didDocuments[did].active THEN Err("DidInactive", s)
    ELSE
        LET s1 == [s EXCEPT !.didDocuments[did].public_key = new_public_key,
                            !.didDocuments[did].updated_at = s.now]
        IN Ok(deposit_event(s1, [name |-> "DidUpdated", did |-> did]))

revoke_did(s, who, did) ==
    IF did \notin DOMAIN s.didDocuments THEN Err("DidNotFound", s)
    ELSE IF s.didDocuments[did].controller # who THEN Err("NotDidController", s)
    ELSE
        LET s1 == [s EXCEPT !.didDocuments[did].active = FALSE,
                            !.didDocuments[did].updated_at = s.now]
        IN Ok(deposit_event(s1, [name |-> "DidRevoked", did |-> did]))

(***************************************************************************)
(* Escrow pallet: helpers.                                                 *)
(***************************************************************************)
calculate_fee(amount, fee_percent) == (amount * fee_percent) \div 100

NewEscrow(s, task_id, user, amount, fee_percent, expires_at) ==
    [task_id |-> task_id, user |-> user, agent_did |-> NoAccount,
     agent_account |-> NoAccount, amount |-> amount,
     fee_percent |-> fee_percent, created_at |-> s.now,
     expires_at |-> expires_at, state |-> "Pending",
     participants |-> <<>>, is_multi_party |-> FALSE,
     milestones |-> <<>>, is_milestone_based |-> FALSE,
     next_milestone_id |-> 0]

TimeoutOr(timeout_blocks) ==
    IF timeout_blocks.some THEN timeout_blocks.v ELSE DefaultTimeout

PushIndex(index, key, task_id) == [index EXCEPT ![key] = Append(@, task_id)]

(***************************************************************************)
(* Escrow pallet: the single-escrow dispatchables.                         *)
(***************************************************************************)
create_escrow(s, user, task_id, amount, timeout_blocks) ==
    IF ~(amount > 0) THEN Err("InsufficientBalance", s)
    ELSE IF ~(amount <= MaxEscrowAmount) THEN Err("AmountTooLarge", s)
    ELSE IF task_id \in DOMAIN s.escrows THEN Err("EscrowAlreadyExists", s)
    ELSE
        LET r == reserve(s, user, amount) IN
        IF ~r.ok THEN Err("InsufficientBalance", r.s)
        ELSE
            LET expires_at == s.now + TimeoutOr(timeout_blocks)
                escrow == NewEscrow(s, task_id, user, amount, DefaultFeePercent, expires_at)
                s1 == [r.s EXCEPT !.escrows = Insert(@, task_id, escrow)]
            IN
            IF ~(Len(s1.userEscrows[user]) < MaxIndexLen)
            THEN Err("TooManyUserEscrows", s1)
            ELSE
                LET s2 == [s1 EXCEPT !.userEscrows = PushIndex(@, user, task_id)]
                IN Ok(deposit_event(s2, [name |-> "EscrowCreated", task_id |-> task_id,
                                         user |-> user, amount |-> amount]))

\* mutant: accept_task without the expiry check
accept_task_after_expiry(s, agent_account, task_id, agent_did) ==
    IF task_id \notin DOMAIN s.escrows THEN Err("EscrowNotFound", s)
    ELSE
        LET escrow == s.escrows[task_id] IN
        IF escrow.state # "Pending" THEN Err("InvalidEscrowState", s)
        ELSE IF ~is_did_active(s, agent_did) THEN Err("InvalidAgentDid", s)
        ELSE
            LET s1 == [s EXCEPT !.escrows[task_id].state = "Accepted",
                                !.escrows[task_id].agent_did = agent_did,
                                !.escrows[task_id].agent_account = agent_account]
                s2 == [s1 EXCEPT !.agentEscrows = PushIndex(@, agent_did, task_id)]
            IN Ok(deposit_event(s2, [name |-> "TaskAccepted", task_id |-> task_id,
                                     agent_account |-> agent_account]))

accept_task(s, agent_account, task_id, agent_did) ==
    IF task_id \notin DOMAIN s.escrows THEN Err("EscrowNotFound", s)
    ELSE
        LET escrow == s.escrows[task_id] IN
        IF escrow.state # "Pending" THEN Err("InvalidEscrowState", s)
        ELSE IF ~(s.now < escrow.expires_at) THEN Err("EscrowExpired", s)
        ELSE IF ~is_did_active(s, agent_did) THEN Err("InvalidAgentDid", s)
        ELSE
            LET s1 == [s EXCEPT !.escrows[task_id].state = "Accepted",
                                !.escrows[task_id].agent_did = agent_did,
                                !.escrows[task_id].agent_account = agent_account]
            IN
            IF ~(Len(s1.agentEscrows[agent_did]) < MaxIndexLen)
            THEN Err("TooManyAgentEscrows", s1)
            ELSE
                LET s2 == [s1 EXCEPT !.agentEscrows = PushIndex(@, agent_did, task_id)]
                IN Ok(deposit_event(s2, [name |-> "TaskAccepted", task_id |-> task_id,
                                         agent_account |-> agent_account]))

\* unreserve, pay the agent, pay the fee, mark Completed
ReleaseOne(s, task_id, agent) ==
    LET escrow == s.escrows[task_id]
        fee_amount == calculate_fee(escrow.amount, escrow.fee_percent)
        net_amount == escrow.amount - fee_amount
        s1 == unreserve(s, escrow.user, escrow.amount)
        t1 == transfer(s1, escrow.user, agent, net_amount, "KeepAlive")
    IN
    IF ~t1.ok THEN t1
    ELSE
        LET p1 == [t1.s EXCEPT !.paidOut[task_id] =
                                   @ + Moved(escrow.user, agent, net_amount)]
            t2 == transfer(p1, escrow.user, ProtocolFeeAccount, fee_amount, "AllowDeath")
        IN
        IF ~t2.ok THEN t2
        ELSE
            LET s2 == [t2.s EXCEPT !.paidOut[task_id] = @ + fee_amount,
                                   !.escrows[task_id].state = "Completed"]
            IN Ok(deposit_event(s2, [name |-> "PaymentReleased", task_id |-> task_id,
                                     agent |-> agent, amount |-> net_amount,
                                     fee |-> fee_amount]))

release_payment(s, caller, task_id) ==
    IF task_id \notin DOMAIN s.escrows THEN Err("EscrowNotFound", s)
    ELSE
        LET escrow == s.escrows[task_id] IN
        IF escrow.user # caller THEN Err("NotEscrowCreator", s)
        ELSE IF escrow.state # "Accepted" THEN Err("InvalidEscrowState", s)
        ELSE IF escrow.agent_account = NoAccount THEN Err("InvalidEscrowState", s)
        ELSE ReleaseOne(s, task_id, escrow.agent_account)

\* mutant: a refund that marks the escrow Refunded and keeps the reservation
refund_escrow_keeps_reservation(s, caller, task_id) ==
    IF task_id \notin DOMAIN s.escrows THEN Err("EscrowNotFound", s)
    ELSE
        LET escrow == s.escrows[task_id] IN
        IF escrow.state # "Pending" THEN Err("InvalidEscrowState", s)
        ELSE IF escrow.user # caller THEN Err("NotEscrowCreator", s)
        ELSE Ok(deposit_event([s EXCEPT !.escrows[task_id].state = "Refunded"],
                              [name |-> "EscrowRefunded", task_id |-> task_id,
                               user |-> escrow.user, amount |-> escrow.amount]))

\* mutant: refund_escrow without the expiry check on an Accepted escrow
refund_escrow_before_expiry(s, caller, task_id) ==
    IF task_id \notin DOMAIN s.escrows THEN Err("EscrowNotFound", s)
    ELSE
        LET escrow == s.escrows[task_id] IN
        IF ~(escrow.state = "Pending" \/ escrow.state = "Accepted")
        THEN Err("InvalidEscrowState", s)
        ELSE IF escrow.state = "Pending" /\ escrow.user # caller
        THEN Err("NotEscrowCreator", s)
        ELSE
            LET s1 == unreserve(s, escrow.user, escrow.amount)
                s2 == [s1 EXCEPT !.escrows[task_id].state = "Refunded"]
            IN Ok(deposit_event(s2, [name |-> "EscrowRefunded", task_id |-> task_id,
                                     user |-> escrow.user, amount |-> escrow.amount]))

refund_escrow(s, caller, task_id) ==
    IF task_id \notin DOMAIN s.escrows THEN Err("EscrowNotFound", s)
    ELSE
        LET escrow == s.escrows[task_id]
            is_expired == s.now >= escrow.expires_at
        IN
        IF ~(escrow.state = "Pending" \/ escrow.state = "Accepted")
        THEN Err("InvalidEscrowState", s)
        ELSE IF escrow.state = "Pending" /\ escrow.user # caller
        THEN Err("NotEscrowCreator", s)
        ELSE IF escrow.state = "Accepted" /\ ~is_expired
        THEN Err("EscrowNotExpired", s)
        ELSE
            LET s1 == unreserve(s, escrow.user, escrow.amount)
                s2 == [s1 EXCEPT !.escrows[task_id].state = "Refunded"]
            IN Ok(deposit_event(s2, [name |-> "EscrowRefunded", task_id |-> task_id,
                                     user |-> escrow.user, amount |-> escrow.amount]))

dispute_escrow(s, caller, task_id) ==
    IF task_id \notin DOMAIN s.escrows THEN Err("EscrowNotFound", s)
    ELSE
        LET escrow == s.escrows[task_id]
            is_user == escrow.user = caller
            is_agent == escrow.agent_account = caller
        IN
        IF escrow.state # "Accepted" THEN Err("InvalidEscrowState", s)
        ELSE IF ~(is_user \/ is_agent) THEN Err("NotEscrowCreator", s)
        ELSE
            LET s1 == [s EXCEPT !.escrows[task_id].state = "Disputed"]
            IN Ok(deposit_event(s1, [name |-> "DisputeRaised", task_id |-> task_id,
                                     raised_by |-> caller]))

(***************************************************************************)
(* Escrow pallet: multi-party participants.                                *)
(***************************************************************************)
HasParticipant(escrow, account) ==
    \E i \in 1..Len(escrow.participants) : escrow.participants[i].account = account

PositionOf(participants, account) ==
    CHOOSE i \in 1..Len(participants) :
        /\ participants[i].account = account
        /\ \A j \in 1..(i - 1) : participants[j].account # account

RemoveAt(seq, i) == SubSeq(seq, 1, i - 1) \o SubSeq(seq, i + 1, Len(seq))

add_participant(s, caller, task_id, participant, role, amount) ==
    IF task_id \notin DOMAIN s.escrows THEN Err("EscrowNotFound", s)
    ELSE
        LET escrow == s.escrows[task_id] IN
        IF escrow.user # caller THEN Err("NotEscrowCreator", s)
        ELSE IF escrow.state # "Pending" THEN Err("InvalidEscrowState", s)
        ELSE IF ~(amount > 0) THEN Err("InsufficientBalance", s)
        ELSE IF HasParticipant(escrow, participant) THEN Err("ParticipantAlreadyExists", s)
        ELSE IF ~(Len(escrow.participants) < MaxParticipants) THEN Err("TooManyParticipants", s)
        ELSE
            LET r == IF role = "Payer" THEN reserve(s, participant, amount) ELSE Ok(s) IN
            IF ~r.ok THEN Err("InsufficientBalance", r.s)
            ELSE
                LET new_participant == [account |-> participant, role |-> role,
                                        amount |-> amount, approved |-> FALSE]
                    s1 == [r.s EXCEPT !.escrows[task_id].participants = Append(@, new_participant),
                                      !.escrows[task_id].is_multi_party = TRUE]
                IN
                IF ~(Len(s1.participantEscrows[participant]) < MaxIndexLen)
                THEN Err("TooManyUserEscrows", s1)
                ELSE
                    LET s2 == [s1 EXCEPT !.participantEscrows = PushIndex(@, participant, task_id)]
                    IN Ok(deposit_event(s2, [name |-> "ParticipantAdded", task_id |-> task_id,
                                             participant |-> participant, role |-> role,
                                             amount |-> amount]))

remove_participant(s, caller, task_id, participant) ==
    IF task_id \notin DOMAIN s.escrows THEN Err("EscrowNotFound", s)
    ELSE
        LET escrow == s.escrows[task_id] IN
        IF escrow.state # "Pending" THEN Err("InvalidEscrowState", s)
        ELSE IF ~(escrow.user = caller \/ participant = caller) THEN Err("NotEscrowCreator", s)
        ELSE IF ~HasParticipant(escrow, participant) THEN Err("ParticipantNotFound", s)
        ELSE
            LET participant_index == PositionOf(escrow.participants, participant)
                removed_participant == escrow.participants[participant_index]
                remaining == RemoveAt(escrow.participants, participant_index)
                s1 == IF removed_participant.role = "Payer"
                      THEN unreserve(s, participant, removed_participant.amount)
                      ELSE s
                s2 == [s1 EXCEPT !.escrows[task_id].participants = remaining,
                                 !.escrows[task_id].is_multi_party =
                                     IF remaining = <<>> THEN FALSE ELSE @]
            IN Ok(deposit_event(s2, [name |-> "ParticipantRemoved", task_id |-> task_id,
                                     participant |-> participant]))

(***************************************************************************)
(* Escrow pallet: milestones.                                              *)
(***************************************************************************)
HasMilestone(escrow, milestone_id) ==
    \E i \in 1..Len(escrow.milestones) : escrow.milestones[i].id = milestone_id

MilestoneIndex(escrow, milestone_id) ==
    CHOOSE i \in 1..Len(escrow.milestones) :
        /\ escrow.milestones[i].id = milestone_id
        /\ \A j \in 1..(i - 1) : escrow.milestones[j].id # milestone_id

Contains(seq, x) == \E i \in 1..Len(seq) : seq[i] = x

add_milestone(s, caller, task_id, amount, required_approvals) ==
    IF task_id \notin DOMAIN s.escrows THEN Err("EscrowNotFound", s)
    ELSE
        LET escrow == s.escrows[task_id] IN
        IF escrow.user # caller THEN Err("NotEscrowCreator", s)
        ELSE IF escrow.state # "Pending" THEN Err("InvalidEscrowState", s)
        ELSE IF ~(amount > 0) THEN Err("InsufficientBalance", s)
        ELSE IF ~(required_approvals > 0) THEN Err("InvalidMilestone", s)
        ELSE IF ~(Len(escrow.milestones) < MaxMilestones) THEN Err("TooManyMilestones", s)
        ELSE
            LET milestone == [id |-> escrow.next_milestone_id, amount |-> amount,
                              completed |-> FALSE, approved_by |-> <<>>,
                              required_approvals |-> required_approvals]
                s1 == [s EXCEPT !.escrows[task_id].milestones = Append(@, milestone),
                                !.escrows[task_id].is_milestone_based = TRUE,
                                !.escrows[task_id].next_milestone_id = @ + 1]
            IN Ok(deposit_event(s1, [name |-> "MilestoneAdded", task_id |-> task_id,
                                     milestone_id |-> milestone.id, amount |-> amount]))

complete_milestone(s, caller, task_id, milestone_id) ==
    IF task_id \notin DOMAIN s.escrows THEN Err("EscrowNotFound", s)
    ELSE
        LET escrow == s.escrows[task_id] IN
        IF escrow.state # "Accepted" THEN Err("InvalidEscrowState", s)
        ELSE IF escrow.agent_account # caller THEN Err("NotAssignedAgent", s)
        ELSE IF ~HasMilestone(escrow, milestone_id) THEN Err("MilestoneNotFound", s)
        ELSE
            LET i == MilestoneIndex(escrow, milestone_id) IN
            IF escrow.milestones[i].completed THEN Err("MilestoneAlreadyCompleted", s)
            ELSE
                LET s1 == [s EXCEPT !.escrows[task_id].milestones[i].completed = TRUE]
                IN Ok(deposit_event(s1, [name |-> "MilestoneCompleted", task_id |-> task_id,
                                         milestone_id |-> milestone_id]))

\* mutant: the milestone paid in full to the agent, no fee taken
release_milestone_payment_without_fee(s, escrow, milestone_id) ==
    IF ~HasMilestone(escrow, milestone_id) THEN Err("MilestoneNotFound", s)
    ELSE IF escrow.agent_account = NoAccount THEN Err("InvalidEscrowState", s)
    ELSE
        LET milestone == escrow.milestones[MilestoneIndex(escrow, milestone_id)]
            agent == escrow.agent_account
            t1 == transfer(s, escrow.user, agent, milestone.amount, "KeepAlive")
        IN
        IF ~t1.ok THEN t1
        ELSE Ok([t1.s EXCEPT !.paidOut[escrow.task_id] =
                                 @ + Moved(escrow.user, agent, milestone.amount)])

release_milestone_payment(s, escrow, milestone_id) ==
    IF ~HasMilestone(escrow, milestone_id) THEN Err("MilestoneNotFound", s)
    ELSE IF escrow.agent_account = NoAccount THEN Err("InvalidEscrowState", s)
    ELSE
        LET milestone == escrow.milestones[MilestoneIndex(escrow, milestone_id)]
            agent == escrow.agent_account
            fee_amount == calculate_fee(milestone.amount, escrow.fee_percent)
            net_amount == milestone.amount - fee_amount
            t1 == transfer(s, escrow.user, agent, net_amount, "KeepAlive")
        IN
        IF ~t1.ok THEN t1
        ELSE
            LET p1 == [t1.s EXCEPT !.paidOut[escrow.task_id] =
                                       @ + Moved(escrow.user, agent, net_amount)]
                t2 == transfer(p1, escrow.user, ProtocolFeeAccount, fee_amount, "AllowDeath")
            IN
            IF ~t2.ok THEN t2
            ELSE
                LET p2 == [t2.s EXCEPT !.paidOut[escrow.task_id] = @ + fee_amount]
                IN Ok(deposit_event(p2, [name |-> "MilestonePaid", task_id |-> escrow.task_id,
                                         milestone_id |-> milestone_id,
                                         amount |-> net_amount, recipient |-> agent]))

\* mutant: approve_milestone without the AlreadyApproved check
approve_milestone_repeatedly(s, caller, task_id, milestone_id) ==
    IF task_id \notin DOMAIN s.escrows THEN Err("EscrowNotFound", s)
    ELSE
        LET escrow == s.escrows[task_id]
            is_authorized == escrow.user = caller \/ HasParticipant(escrow, caller)
        IN
        IF escrow.state # "Accepted" THEN Err("InvalidEscrowState", s)
        ELSE IF ~is_authorized THEN Err("NotAuthorizedToApprove", s)
        ELSE IF ~HasMilestone(escrow, milestone_id) THEN Err("MilestoneNotFound", s)
        ELSE
            LET i == MilestoneIndex(escrow, milestone_id)
                milestone == escrow.milestones[i]
            IN
            IF ~milestone.completed THEN Err("MilestoneNotCompleted", s)
            ELSE IF ~(Len(milestone.approved_by) < 2) THEN Err("TooManyUserEscrows", s)
            ELSE Ok(deposit_event(
                     [s EXCEPT !.escrows[task_id].milestones[i].approved_by =
                                   Append(@, caller)],
                     [name |-> "MilestoneApproved", task_id |-> task_id,
                      milestone_id |-> milestone_id, approved_by |-> caller]))

approve_milestone(s, caller, task_id, milestone_id) ==
    IF task_id \notin DOMAIN s.escrows THEN Err("EscrowNotFound", s)
    ELSE
        LET escrow == s.escrows[task_id]
            is_authorized == escrow.user = caller \/ HasParticipant(escrow, caller)
        IN
        IF escrow.state # "Accepted" THEN Err("InvalidEscrowState", s)
        ELSE IF ~is_authorized THEN Err("NotAuthorizedToApprove", s)
        ELSE IF ~HasMilestone(escrow, milestone_id) THEN Err("MilestoneNotFound", s)
        ELSE
            LET i == MilestoneIndex(escrow, milestone_id)
                milestone == escrow.milestones[i]
            IN
            IF ~milestone.completed THEN Err("MilestoneNotCompleted", s)
            ELSE IF Contains(milestone.approved_by, caller) THEN Err("AlreadyApproved", s)
            ELSE IF ~(Len(milestone.approved_by) < MaxApprovers) THEN Err("TooManyUserEscrows", s)
            ELSE
                LET s1 == [s EXCEPT !.escrows[task_id].milestones[i].approved_by =
                                        Append(@, caller)]
                    approval_count == Len(milestone.approved_by) + 1
                    should_pay == approval_count >= milestone.required_approvals
                    s2 == deposit_event(s1, [name |-> "MilestoneApproved", task_id |-> task_id,
                                             milestone_id |-> milestone_id,
                                             approved_by |-> caller])
                IN
                IF should_pay
                THEN release_milestone_payment(s2, s1.escrows[task_id], milestone_id)
                ELSE Ok(s2)

(***************************************************************************)
(* Escrow pallet: refund policies.                                         *)
(***************************************************************************)
RECURSIVE StagesValid(_, _)
\* "ok", or the error of the first stage that fails validation
StagesValid(stages, last_block) ==
    IF stages = <<>> THEN "ok"
    ELSE IF ~(Head(stages)[1] > last_block) THEN "GraduatedStagesInvalid"
    ELSE IF ~(Head(stages)[2] <= 100) THEN "InvalidRefundPercentage"
    ELSE StagesValid(Tail(stages), Head(stages)[1])

validate_refund_policy(policy) ==
    LET pt == policy.policy_type IN
    CASE pt.tag = "TimeBased" ->
            IF pt.partial_refund_percentage <= 100 THEN "ok" ELSE "InvalidRefundPercentage"
      [] pt.tag = "Graduated" ->
            IF pt.stages = <<>> THEN "GraduatedStagesInvalid" ELSE StagesValid(pt.stages, 0)
      [] pt.tag = "Conditional" ->
            IF pt.refund_percentages = <<>> THEN "ConditionalMilestonesInvalid"
            ELSE IF \E i \in 1..Len(pt.refund_percentages) : pt.refund_percentages[i] > 100
            THEN "InvalidRefundPercentage"
            ELSE "ok"
      [] pt.tag = "CancellationFee" ->
            IF pt.fee_amount > 0 THEN "ok" ELSE "InvalidRefundPolicy"
      [] OTHER -> "ok"

RECURSIVE GraduatedPercentageAtDeadline(_, _, _)
\* mutant: a stage counts as passed at its deadline already
GraduatedPercentageAtDeadline(stages, current_block, refund_percentage) ==
    IF stages = <<>> THEN refund_percentage
    ELSE IF current_block < Head(stages)[1] THEN refund_percentage
    ELSE GraduatedPercentageAtDeadline(Tail(stages), current_block, Head(stages)[2])

RECURSIVE GraduatedPercentage(_, _, _)
\* the loop over the stages: stop at the first deadline not yet passed
GraduatedPercentage(stages, current_block, refund_percentage) ==
    IF stages = <<>> THEN refund_percentage
    ELSE IF current_block <= Head(stages)[1] THEN refund_percentage
    ELSE GraduatedPercentage(Tail(stages), current_block, Head(stages)[2])

CompletedCount(escrow) ==
    Cardinality({i \in 1..Len(escrow.milestones) : escrow.milestones[i].completed})

\* [ok, v]: the refund the policy grants on original_amount at the current block
evaluate_refund_policy(s, task_id, policy, original_amount) ==
    LET pt == policy.policy_type
        current_block == s.now
    IN
    CASE pt.tag = "Standard" -> [ok |-> TRUE, v |-> original_amount]
      [] pt.tag = "TimeBased" ->
            IF current_block <= pt.full_refund_deadline
            THEN [ok |-> TRUE, v |-> original_amount]
            ELSE [ok |-> TRUE,
                  v |-> (original_amount * pt.partial_refund_percentage) \div 100]
      [] pt.tag = "Graduated" ->
            [ok |-> TRUE,
             v |-> (original_amount * GraduatedPercentage(pt.stages, current_block, 100))
                       \div 100]
      [] pt.tag = "CancellationFee" ->
            [ok |-> TRUE,
             v |-> IF original_amount >= pt.fee_amount
                   THEN original_amount - pt.fee_amount ELSE 0]
      [] pt.tag = "NoRefund" ->
            IF current_block <= pt.work_start_deadline
            THEN [ok |-> TRUE, v |-> original_amount]
            ELSE [ok |-> TRUE, v |-> 0]
      [] pt.tag = "Conditional" ->
            IF task_id \notin DOMAIN s.escrows THEN [ok |-> FALSE, v |-> 0]
            ELSE
                LET completed_count == CompletedCount(s.escrows[task_id])
                    percentage ==
                        IF pt.milestones_completed < Len(pt.refund_percentages)
                        THEN pt.refund_percentages[
                                 Min(completed_count, pt.milestones_completed) + 1]
                        ELSE 0
                IN [ok |-> TRUE, v |-> (original_amount * percentage) \div 100]
      [] pt.tag = "DisputeBased" -> [ok |-> TRUE, v |-> original_amount]

can_override_policy(policy, caller) ==
    IF ~policy.can_override THEN FALSE
    ELSE IF policy.override_authority # NoAccount THEN policy.override_authority = caller
    ELSE TRUE

set_refund_policy(s, caller, task_id, policy) ==
    IF task_id \notin DOMAIN s.escrows THEN Err("EscrowNotFound", s)
    ELSE
        LET escrow == s.escrows[task_id] IN
        IF escrow.user # caller THEN Err("NotEscrowCreator", s)
        ELSE IF escrow.state # "Pending" THEN Err("InvalidEscrowState", s)
        ELSE IF validate_refund_policy(policy) # "ok"
        THEN Err(validate_refund_policy(policy), s)
        ELSE
            LET s1 == [s EXCEPT !.policies = Insert(@, task_id, policy)]
            IN Ok(deposit_event(s1, [name |-> "RefundPolicySet", task_id |-> task_id,
                                     policy_type |-> policy.policy_type.tag]))

update_refund_policy(s, caller, task_id, new_policy) ==
    IF task_id \notin DOMAIN s.escrows THEN Err("EscrowNotFound", s)
    ELSE IF task_id \notin DOMAIN s.policies THEN Err("RefundPolicyNotFound", s)
    ELSE
        LET escrow == s.escrows[task_id]
            old_policy == s.policies[task_id]
        IN
        IF ~(escrow.user = caller \/ can_override_policy(old_policy, caller))
        THEN Err("NotAuthorizedToOverride", s)
        ELSE IF validate_refund_policy(new_policy) # "ok"
        THEN Err(validate_refund_policy(new_policy), s)
        ELSE
            LET s1 == [s EXCEPT !.policies = Insert(@, task_id, new_policy)]
            IN Ok(deposit_event(s1, [name |-> "RefundPolicyUpdated", task_id |-> task_id,
                                     old_policy |-> old_policy.policy_type.tag,
                                     new_policy |-> new_policy.policy_type.tag,
                                     updated_by |-> caller]))

\* the refund the stored policy grants; no stored policy is the Standard policy
PolicyRefund(s, task_id, amount) ==
    IF task_id \in DOMAIN s.policies
    THEN evaluate_refund_policy(s, task_id, s.policies[task_id], amount)
    ELSE [ok |-> TRUE, v |-> amount]

evaluate_refund_amount(s, caller, task_id) ==
    IF task_id \notin DOMAIN s.escrows THEN Err("EscrowNotFound", s)
    ELSE
        LET escrow == s.escrows[task_id]
            refund == PolicyRefund(s, task_id, escrow.amount)
            policy_type == IF task_id \in DOMAIN s.policies
                           THEN s.policies[task_id].policy_type.tag ELSE "Standard"
        IN
        IF ~refund.ok THEN Err("EscrowNotFound", s)
        ELSE Ok(deposit_event(s, [name |-> "RefundAmountCalculated", task_id |-> task_id,
                                  policy_type |-> policy_type,
                                  original_amount |-> escrow.amount,
                                  refund_amount |-> refund.v]))

override_refund_amount(s, caller, task_id, override_amount) ==
    IF task_id \notin DOMAIN s.escrows THEN Err("EscrowNotFound", s)
    ELSE IF task_id \notin DOMAIN s.policies THEN Err("RefundPolicyNotFound", s)
    ELSE
        LET escrow == s.escrows[task_id]
            policy == s.policies[task_id]
        IN
        IF ~can_override_policy(policy, caller) THEN Err("CannotOverridePolicy", s)
        ELSE IF ~(override_amount <= escrow.amount) THEN Err("InvalidRefundPercentage", s)
        ELSE
            LET refund_amount == override_amount
                protocol_amount == escrow.amount - refund_amount
                s1 == unreserve(s, escrow.user, escrow.amount)
                t1 == IF refund_amount < escrow.amount
                      THEN transfer(s1, escrow.user, ProtocolFeeAccount,
                                    protocol_amount, "AllowDeath")
                      ELSE Ok(s1)
            IN
            IF ~t1.ok THEN t1
            ELSE
                LET s2 == [t1.s EXCEPT !.escrows[task_id].state = "Refunded",
                                       !.paidOut[task_id] = @ + protocol_amount]
                    s3 == deposit_event(s2, [name |-> "RefundPolicyOverridden",
                                             task_id |-> task_id,
                                             original_amount |-> escrow.amount,
                                             override_amount |-> refund_amount,
                                             overridden_by |-> caller])
                IN Ok(deposit_event(s3, [name |-> "EscrowRefunded", task_id |-> task_id,
                                         user |-> escrow.user, amount |-> refund_amount]))

(***************************************************************************)
(* Escrow pallet: batch dispatchables.                                     *)
(***************************************************************************)
generate_batch_id(s, user, operation_type) ==
    <<user, operation_type, s.now, s.batchCounters[1]>>

increment_batch_counters(s, operations_count) ==
    [s EXCEPT !.batchCounters = <<@[1] + 1, @[2] + operations_count>>]

RECURSIVE PreValidateCreate(_, _, _)
\* the pre-validation loop of batch_create_escrow: [ok, err, total]
PreValidateCreate(s, requests, total_amount) ==
    IF requests = <<>> THEN [ok |-> TRUE, err |-> "", total |-> total_amount]
    ELSE
        LET request == Head(requests)
            bad(e) == [ok |-> FALSE, err |-> e, total |-> total_amount]
        IN
        IF ~(request.amount > 0) THEN bad("InsufficientBalance")
        ELSE IF ~(request.amount <= MaxEscrowAmount) THEN bad("AmountTooLarge")
        ELSE IF request.task_id \in DOMAIN s.escrows THEN bad("EscrowAlreadyExists")
        ELSE IF /\ request.refund_policy.some
                /\ validate_refund_policy(request.refund_policy.v) # "ok"
        THEN bad(validate_refund_policy(request.refund_policy.v))
        ELSE PreValidateCreate(s, Tail(requests), total_amount + request.amount)

RECURSIVE ExecuteCreate(_, _, _, _, _)
\* the execution loop of batch_create_escrow: [s, stop, successful, index];
\* stop is "done", "break" (a reserve failed) or the error returned by `?`
ExecuteCreate(s, user, requests, successful_operations, index) ==
    IF requests = <<>>
    THEN [s |-> s, stop |-> "done", successful |-> successful_operations, index |-> index]
    ELSE
        LET request == Head(requests)
            r == reserve(s, user, request.amount)
        IN
        IF ~r.ok
        THEN [s |-> r.s, stop |-> "break", successful |-> successful_operations,
              index |-> index]
        ELSE
            LET expires_at == s.now + TimeoutOr(request.timeout_blocks)
                escrow == NewEscrow(s, request.task_id, user, request.amount,
                                    DefaultFeePercent, expires_at)
                s1 == [r.s EXCEPT !.escrows = Insert(@, request.task_id, escrow)]
            IN
            IF ~(Len(s1.userEscrows[user]) < MaxIndexLen)
            THEN [s |-> s1, stop |-> "TooManyUserEscrows",
                  successful |-> successful_operations, index |-> index]
            ELSE
                LET s2 == [s1 EXCEPT !.userEscrows = PushIndex(@, user, request.task_id)]
                    s3 == IF request.refund_policy.some
                          THEN [s2 EXCEPT !.policies =
                                    Insert(@, request.task_id, request.refund_policy.v)]
                          ELSE s2
                    s4 == deposit_event(s3, [name |-> "EscrowCreated",
                                             task_id |-> request.task_id,
                                             user |-> user, amount |-> request.amount])
                IN ExecuteCreate(s4, user, Tail(requests), successful_operations + 1,
                                 index + 1)

batch_create_escrow(s, user, requests) ==
    IF ~(Len(requests) <= MaxBatchSize) THEN Err("BatchSizeExceeded", s)
    ELSE IF requests = <<>> THEN Err("InvalidBatchSize", s)
    ELSE
        LET batch_id == generate_batch_id(s, user, "create_escrow") IN
        IF batch_id \in s.batchInProgress THEN Err("BatchAlreadyInProgress", s)
        ELSE
            LET pre == PreValidateCreate(s, requests, 0) IN
            IF ~pre.ok THEN Err(pre.err, s)
            ELSE IF ~(s.free[user] >= pre.total) THEN Err("InsufficientBalanceForBatch", s)
            ELSE
                LET s1 == [s EXCEPT !.batchInProgress = @ \cup {batch_id}]
                    run == ExecuteCreate(s1, user, requests, 0, 0)
                IN
                IF run.stop \notin {"done", "break"} THEN Err(run.stop, run.s)
                ELSE
                    LET s2 == [run.s EXCEPT !.batchInProgress = @ \ {batch_id}]
                        s3 == increment_batch_counters(s2, Len(requests))
                    IN
                    IF run.stop = "break"
                    THEN Err("InsufficientBalance",
                             deposit_event(s3, [name |-> "BatchOperationFailed",
                                                batch_id |-> batch_id,
                                                failure_index |-> run.index]))
                    ELSE Ok(deposit_event(s3, [name |-> "BatchOperationCompleted",
                                               batch_id |-> batch_id,
                                               operation_type |-> "create_escrow",
                                               successful_operations |-> run.successful,
                                               total_amount_processed |-> pre.total]))

RECURSIVE PreValidateRelease(_, _, _, _)
\* the pre-validation loop of batch_release_payment: [ok, err, total]
PreValidateRelease(s, caller, task_ids, total_amount) ==
    IF task_ids = <<>> THEN [ok |-> TRUE, err |-> "", total |-> total_amount]
    ELSE
        LET task_id == Head(task_ids)
            bad(e) == [ok |-> FALSE, err |-> e, total |-> total_amount]
        IN
        IF task_id \notin DOMAIN s.escrows THEN bad("EscrowNotFound")
        ELSE IF s.escrows[task_id].user # caller THEN bad("NotEscrowCreator")
        ELSE IF s.escrows[task_id].state # "Accepted" THEN bad("InvalidEscrowState")
        ELSE PreValidateRelease(s, caller, Tail(task_ids),
                                total_amount + s.escrows[task_id].amount)

RECURSIVE ExecuteRelease(_, _, _)
\* the execution loop of batch_release_payment: [ok, err, s, successful]
ExecuteRelease(s, task_ids, successful_operations) ==
    IF task_ids = <<>>
    THEN [ok |-> TRUE, err |-> "", s |-> s, successful |-> successful_operations]
    ELSE
        LET task_id == Head(task_ids)
            bad(e, s1) == [ok |-> FALSE, err |-> e, s |-> s1,
                           successful |-> successful_operations]
        IN
        IF task_id \notin DOMAIN s.escrows THEN bad("EscrowNotFound", s)
        ELSE IF s.escrows[task_id].agent_account = NoAccount
        THEN bad("InvalidEscrowState", s)
        ELSE
            LET r == ReleaseOne(s, task_id, s.escrows[task_id].agent_account) IN
            IF ~r.ok THEN bad(r.err, r.s)
            ELSE ExecuteRelease(r.s, Tail(task_ids), successful_operations + 1)

batch_release_payment(s, caller, task_ids) ==
    IF ~(Len(task_ids) <= MaxBatchSize) THEN Err("BatchSizeExceeded", s)
    ELSE IF task_ids = <<>> THEN Err("InvalidBatchSize", s)
    ELSE
        LET batch_id == generate_batch_id(s, caller, "release_payment")
            pre == PreValidateRelease(s, caller, task_ids, 0)
        IN
        IF ~pre.ok THEN Err(pre.err, s)
        ELSE
            LET run == ExecuteRelease(s, task_ids, 0) IN
            IF ~run.ok THEN Err(run.err, run.s)
            ELSE Ok(deposit_event(run.s, [name |-> "BatchOperationCompleted",
                                          batch_id |-> batch_id,
                                          operation_type |-> "release_payment",
                                          successful_operations |-> run.successful,
                                          total_amount_processed |-> pre.total]))

RECURSIVE RefundLoop(_, _, _, _, _)
\* the loop of batch_refund_escrow: [ok, err, s, successful, total]
RefundLoop(s, caller, task_ids, total_amount, successful_operations) ==
    IF task_ids = <<>>
    THEN [ok |-> TRUE, err |-> "", s |-> s, successful |-> successful_operations,
          total |-> total_amount]
    ELSE
        LET task_id == Head(task_ids)
            bad(e, s1) == [ok |-> FALSE, err |-> e, s |-> s1,
                           successful |-> successful_operations, total |-> total_amount]
        IN
        IF task_id \notin DOMAIN s.escrows THEN bad("EscrowNotFound", s)
        ELSE
            LET escrow == s.escrows[task_id]
                is_expired == s.now >= escrow.expires_at
            IN
            IF ~(escrow.state = "Pending" \/ escrow.state = "Accepted")
            THEN bad("InvalidEscrowState", s)
            ELSE IF escrow.state = "Pending" /\ escrow.user # caller
            THEN bad("NotEscrowCreator", s)
            ELSE IF escrow.state = "Accepted" /\ ~is_expired
            THEN bad("EscrowNotExpired", s)
            ELSE
                LET refund == PolicyRefund(s, task_id, escrow.amount) IN
                IF ~refund.ok THEN bad("EscrowNotFound", s)
                ELSE
                    LET refund_amount == refund.v
                        partial == refund_amount > 0 /\ refund_amount < escrow.amount
                        protocol_amount == escrow.amount - refund_amount
                        s1 == unreserve(s, escrow.user, escrow.amount)
                        t1 == IF partial
                              THEN transfer(s1, escrow.user, ProtocolFeeAccount,
                                            protocol_amount, "AllowDeath")
                              ELSE Ok(s1)
                    IN
                    IF ~t1.ok THEN bad(t1.err, t1.s)
                    ELSE
                        LET s2 == [t1.s EXCEPT
                                       !.escrows[task_id].state = "Refunded",
                                       !.paidOut[task_id] =
                                           IF partial THEN @ + protocol_amount ELSE @]
                            s3 == deposit_event(s2, [name |-> "EscrowRefunded",
                                                     task_id |-> task_id,
                                                     user |-> escrow.user,
                                                     amount |-> refund_amount])
                        IN RefundLoop(s3, caller, Tail(task_ids),
                                      total_amount + refund_amount,
                                      successful_operations + 1)

batch_refund_escrow(s, caller, task_ids) ==
    IF ~(Len(task_ids) <= MaxBatchSize) THEN Err("BatchSizeExceeded", s)
    ELSE IF task_ids = <<>> THEN Err("InvalidBatchSize", s)
    ELSE
        LET batch_id == generate_batch_id(s, caller, "refund_escrow")
            run == RefundLoop(s, caller, task_ids, 0, 0)
        IN
        IF ~run.ok THEN Err(run.err, run.s)
        ELSE Ok(deposit_event(run.s, [name |-> "BatchOperationCompleted",
                                      batch_id |-> batch_id,
                                      operation_type |-> "refund_escrow",
                                      successful_operations |-> run.successful,
                                      total_amount_processed |-> run.total]))

RECURSIVE DisputeLoop(_, _, _, _)
\* the loop of batch_dispute_escrow: [ok, err, s, successful]
DisputeLoop(s, caller, task_ids, successful_operations) ==
    IF task_ids = <<>>
    THEN [ok |-> TRUE, err |-> "", s |-> s, successful |-> successful_operations]
    ELSE
        LET task_id == Head(task_ids)
            bad(e) == [ok |-> FALSE, err |-> e, s |-> s,
                       successful |-> successful_operations]
        IN
        IF task_id \notin DOMAIN s.escrows THEN bad("EscrowNotFound")
        ELSE
            LET escrow == s.escrows[task_id]
                is_user == escrow.user = caller
                is_agent == escrow.agent_account = caller
            IN
            IF escrow.state # "Accepted" THEN bad("InvalidEscrowState")
            ELSE IF ~(is_user \/ is_agent) THEN bad("NotEscrowCreator")
            ELSE
                LET s1 == [s EXCEPT !.escrows[task_id].state = "Disputed"]
                    s2 == deposit_event(s1, [name |-> "DisputeRaised",
                                             task_id |-> task_id, raised_by |-> caller])
                IN DisputeLoop(s2, caller, Tail(task_ids), successful_operations + 1)

batch_dispute_escrow(s, caller, task_ids) ==
    IF ~(Len(task_ids) <= MaxBatchSize) THEN Err("BatchSizeExceeded", s)
    ELSE IF task_ids = <<>> THEN Err("InvalidBatchSize", s)
    ELSE
        LET batch_id == generate_batch_id(s, caller, "dispute_escrow")
            run == DisputeLoop(s, caller, task_ids, 0)
        IN
        IF ~run.ok THEN Err(run.err, run.s)
        ELSE Ok(deposit_event(run.s, [name |-> "BatchOperationCompleted",
                                      batch_id |-> batch_id,
                                      operation_type |-> "dispute_escrow",
                                      successful_operations |-> run.successful,
                                      total_amount_processed |-> 0]))

(***************************************************************************)
(* pallet_registry: AgentCards and the capability index.                   *)
(***************************************************************************)
\* a ValueQuery map of lists: the list under key, empty when there is none
ListAt(index, key) == IF key \in DOMAIN index THEN index[key] ELSE <<>>

RECURSIVE IndexCapabilities(_, _, _, _)
\* register_agent's last loop: push did under each capability in turn
IndexCapabilities(s, capabilities, i, did) ==
    IF i > Len(capabilities) THEN Ok(s)
    ELSE IF Len(ListAt(s.capabilityIndex, capabilities[i])) >= MaxAgentsPerCapability
    THEN Err("TooManyCapabilities", s)
    ELSE IndexCapabilities(
             [s EXCEPT !.capabilityIndex =
                 Insert(@, capabilities[i], Append(ListAt(@, capabilities[i]), did))],
             capabilities, i + 1, did)

register_agent(s, who, did, name, capabilities, wasm_hash, price_per_task) ==
    IF ~is_did_active(s, did) THEN Err("InvalidDid", s)
    ELSE IF did \in DOMAIN s.agentCards THEN Err("AgentAlreadyRegistered", s)
    ELSE IF Len(capabilities) > MaxCapabilities THEN Err("TooManyCapabilities", s)
    ELSE
        LET agent_card == [did |-> did, name |-> name,
                           capabilities |-> capabilities, wasm_hash |-> wasm_hash,
                           price_per_task |-> price_per_task,
                           registered_at |-> s.now, updated_at |-> s.now,
                           active |-> TRUE]
            s1 == [s EXCEPT !.agentCards = Insert(@, did, agent_card)]
            s2 == IndexCapabilities(s1, capabilities, 1, did)
        IN IF ~s2.ok THEN s2
           ELSE Ok(deposit_event(s2.s, [name |-> "AgentRegistered", did |-> did]))

update_agent(s, who, did, new_capabilities, new_price_per_task) ==
    IF did \notin DOMAIN s.agentCards THEN Err("AgentNotFound", s)
    ELSE IF ~s.agentCards[did].active THEN Err("AgentInactive", s)
    ELSE IF new_capabilities.some /\ Len(new_capabilities.v) > MaxCapabilities
    THEN Err("TooManyCapabilities", s)
    ELSE
        LET card == s.agentCards[did]
            card1 == IF new_capabilities.some
                     THEN [card EXCEPT !.capabilities = new_capabilities.v] ELSE card
            card2 == IF new_price_per_task.some
                     THEN [card1 EXCEPT !.price_per_task = new_price_per_task.v]
                     ELSE card1
            card3 == [card2 EXCEPT !.updated_at = s.now]
            s1 == [s EXCEPT !.agentCards[did] = card3]
        IN Ok(deposit_event(s1, [name |-> "AgentUpdated", did |-> did]))

deregister_agent(s, who, did) ==
    IF did \notin DOMAIN s.agentCards THEN Err("AgentNotFound", s)
    ELSE
        LET s1 == [s EXCEPT !.agentCards[did].active = FALSE,
                            !.agentCards[did].updated_at = s.now]
        IN Ok(deposit_event(s1, [name |-> "AgentDeregistered", did |-> did]))

find_agents_by_capability(s, capability) == ListAt(s.capabilityIndex, capability)

\* mutant: the card under did, active or not
get_agent_card_of_any_status(s, did) ==
    IF did \in DOMAIN s.agentCards THEN Some(s.agentCards[did]) ELSE None

\* the card under did, only if it is active
get_agent_card(s, did) ==
    IF did \in DOMAIN s.agentCards /\ s.agentCards[did].active
    THEN Some(s.agentCards[did]) ELSE None

(***************************************************************************)
(* pallet_reputation: bonded stake, score and slashing.                    *)
(***************************************************************************)
saturating_sub(a, b) == IF a > b THEN a - b ELSE 0

\* mutant: every success gains 10
flat_reputation_gain(reputation) == 10

\* report_outcome: the gain of a success at the given score
reputation_gain(reputation) == saturating_sub(10, reputation \div 100)

\* slash_severe: the percentage of the stake an offense code costs
slash_percentage(offense_code) ==
    CASE offense_code = 0 -> 50
      [] offense_code = 1 -> 30
      [] offense_code = 2 -> 25
      [] offense_code = 3 -> 20
      [] OTHER -> 20

bond_reputation(s, who, value) ==
    IF ~(value >= MinReputationStake) THEN Err("StakeTooLow", s)
    ELSE
    LET r == reserve(s, who, value) IN
    IF ~r.ok THEN r
    ELSE
        LET stake == IF who \in DOMAIN r.s.reputationStakes
                     THEN r.s.reputationStakes[who]
                     ELSE [staked |-> 0, reputation |-> 0, tasks_completed |-> 0,
                           tasks_failed |-> 0, slashed |-> 0,
                           active_since |-> s.now]
            new_stake == [staked |-> stake.staked + value,
                          reputation |-> IF stake.reputation = 0
                                         THEN StartingReputation
                                         ELSE stake.reputation,
                          tasks_completed |-> stake.tasks_completed,
                          tasks_failed |-> stake.tasks_failed,
                          slashed |-> stake.slashed,
                          active_since |-> IF stake.reputation = 0 THEN s.now
                                           ELSE stake.active_since]
            s1 == [r.s EXCEPT !.reputationStakes = Insert(@, who, new_stake)]
        IN Ok(deposit_event(s1, [name |-> "ReputationBonded", who |-> who,
                                 value |-> value]))

unbond_reputation(s, who, value) ==
    IF who \notin DOMAIN s.reputationStakes THEN Err("NoStake", s)
    ELSE IF ~(s.reputationStakes[who].staked >= value)
    THEN Err("InsufficientStake", s)
    ELSE
        LET s1 == unreserve(s, who, value)
            s2 == [s1 EXCEPT !.reputationStakes[who].staked =
                                 saturating_sub(@, value)]
        IN Ok(deposit_event(s2, [name |-> "ReputationUnbonded", who |-> who,
                                 value |-> value]))

report_outcome(s, origin, agent, task_id, success) ==
    IF origin # OrchestratorOrigin THEN Err("BadOrigin", s)
    ELSE IF agent \notin DOMAIN s.reputationStakes THEN Err("NoStake", s)
    ELSE
    LET stake == s.reputationStakes[agent]
        old_reputation == stake.reputation
        reported == [name |-> "TaskOutcomeReported", agent |-> agent,
                     task_id |-> task_id, success |-> success]
    IN
    IF success
    THEN
        LET new_reputation ==
                Min(stake.reputation + reputation_gain(stake.reputation),
                    MaxReputationScore)
            s1 == [s EXCEPT !.reputationStakes[agent] =
                       [stake EXCEPT !.tasks_completed = @ + 1,
                                     !.reputation = new_reputation]]
            s2 == deposit_event(s1, [name |-> "ReputationIncreased",
                                     agent |-> agent, old |-> old_reputation,
                                     new |-> new_reputation])
        IN Ok(deposit_event(s2, reported))
    ELSE
        LET new_reputation == saturating_sub(stake.reputation, ReputationLoss)
            slash_amount == stake.staked \div 100
            s1 == unreserve(s, agent, slash_amount)
            r == transfer(s1, agent, TreasuryAccount, slash_amount, "AllowDeath")
        IN
        IF ~r.ok THEN r
        ELSE
            LET s2 == [r.s EXCEPT !.reputationStakes[agent] =
                          [stake EXCEPT !.tasks_failed = @ + 1,
                                        !.reputation = new_reputation,
                                        !.staked = saturating_sub(@, slash_amount),
                                        !.slashed = @ + slash_amount]]
                s3 == deposit_event(s2, [name |-> "ReputationDecreased",
                                         agent |-> agent, old |-> old_reputation,
                                         new |-> new_reputation,
                                         slashed |-> slash_amount])
            IN Ok(deposit_event(s3, reported))

slash_severe(s, origin, agent, offense_code) ==
    IF origin # SlashingOrigin THEN Err("BadOrigin", s)
    ELSE IF agent \notin DOMAIN s.reputationStakes THEN Err("NoStake", s)
    ELSE
    LET stake == s.reputationStakes[agent]
        old_reputation == stake.reputation
        slash_amount == (stake.staked * slash_percentage(offense_code)) \div 100
        s1 == unreserve(s, agent, slash_amount)
        r == transfer(s1, agent, TreasuryAccount, slash_amount, "AllowDeath")
    IN
    IF ~r.ok THEN r
    ELSE
        LET s2 == [r.s EXCEPT !.reputationStakes[agent] =
                      [stake EXCEPT !.staked = saturating_sub(@, slash_amount),
                                    !.slashed = @ + slash_amount,
                                    !.reputation = 0]]
            s3 == deposit_event(s2, [name |-> "SevereSlash", agent |-> agent,
                                     percentage |-> slash_percentage(offense_code)])
        IN Ok(deposit_event(s3, [name |-> "ReputationDecreased", agent |-> agent,
                                 old |-> old_reputation, new |-> 0,
                                 slashed |-> slash_amount]))

(***************************************************************************)
(* Escrow pallet: templates.  Names and descriptions of templates are not  *)
(* modelled; a template is of type Custom or one of the predefined types.  *)
(***************************************************************************)
\* TemplateParams::default() with the timeout and the amount range given
TemplateParams(default_timeout, min_amount, max_amount, multi_party_enabled) ==
    [default_timeout |-> default_timeout,
     default_fee_percent |-> Some(DefaultFeePercent),
     multi_party_enabled |-> multi_party_enabled, milestone_enabled |-> FALSE,
     max_participants |-> None, max_milestones |-> None,
     default_milestone_approvals |-> Some(1),
     min_amount |-> min_amount, max_amount |-> max_amount,
     auto_accept_timeout |-> None, auto_release_timeout |-> None,
     disputes_enabled |-> TRUE]

TemplateEscrowConfig(template_id, timeout_override, participant_configs) ==
    [template_id |-> template_id, timeout_override |-> timeout_override,
     fee_percent_override |-> None, min_amount_override |-> None,
     max_amount_override |-> None, milestone_configs |-> None,
     participant_configs |-> participant_configs]

validate_template_params(s, params) ==
    IF params.default_fee_percent.some /\ ~(params.default_fee_percent.v <= 100)
    THEN Err("InvalidFeePercentage", s)
    ELSE IF /\ params.max_participants.some
            /\ ~(params.max_participants.v > 0 /\ params.max_participants.v <= 1000)
    THEN Err("InvalidTemplateParams", s)
    ELSE IF /\ params.max_milestones.some
            /\ ~(params.max_milestones.v > 0 /\ params.max_milestones.v <= 100)
    THEN Err("InvalidTemplateParams", s)
    ELSE IF /\ params.max_milestones.some /\ params.default_milestone_approvals.some
            /\ ~(params.default_milestone_approvals.v <= params.max_milestones.v)
    THEN Err("InvalidTemplateParams", s)
    ELSE IF /\ params.min_amount.some /\ params.max_amount.some
            /\ ~(params.min_amount.v <= params.max_amount.v)
    THEN Err("InvalidAmountRange", s)
    ELSE IF params.default_timeout.some /\ ~(params.default_timeout.v > s.now)
    THEN Err("InvalidTemplateParams", s)
    ELSE IF /\ params.default_timeout.some /\ params.auto_accept_timeout.some
            /\ ~(params.auto_accept_timeout.v < params.default_timeout.v)
    THEN Err("InvalidTemplateParams", s)
    ELSE IF /\ params.default_timeout.some /\ params.auto_release_timeout.some
            /\ ~(params.auto_release_timeout.v < params.default_timeout.v)
    THEN Err("InvalidTemplateParams", s)
    ELSE Ok(s)

create_template(s, creator, template_type, params) ==
    LET v == validate_template_params(s, params) IN
    IF ~v.ok THEN v
    ELSE IF template_type # "Custom" THEN Err("InvalidTemplateParams", s)
    ELSE
        LET template_id == s.nextTemplateId
            template == [template_id |-> template_id, template_type |-> "Custom",
                         default_params |-> params, is_active |-> TRUE,
                         created_by |-> creator, created_at |-> s.now,
                         usage_count |-> 0]
            s1 == [s EXCEPT !.escrowTemplates = Insert(@, template_id, template),
                            !.nextTemplateId = template_id + 1]
        IN
        IF ~(Len(ListAt(s1.templatesByCreator, creator)) < MaxTemplatesPerCreator)
        THEN Err("TooManyTemplates", s1)
        ELSE
            LET s2 == [s1 EXCEPT !.templatesByCreator =
                          Insert(@, creator, Append(ListAt(@, creator), template_id))]
            IN Ok(deposit_event(s2, [name |-> "TemplateCreated",
                                     template_id |-> template_id,
                                     created_by |-> creator]))

\* usage_count is a u32 raised by saturating_add: the count stays at 2^32 - 1
\* once it is there, which takes 2^32 - 1 creations from one template
increment_template_usage(s, template_id) ==
    IF template_id \notin DOMAIN s.escrowTemplates THEN Err("TemplateNotFound", s)
    ELSE IF ~s.escrowTemplates[template_id].is_active THEN Err("TemplateInactive", s)
    ELSE Ok([s EXCEPT !.escrowTemplates[template_id].usage_count = @ + 1])

\* the escrow as the template and the config shape it: [ok, err, escrow].
\* The participants and milestones are pushed onto the empty lists of the new
\* escrow, so try_push fails exactly when a config holds more than the bound.
apply_template_config(s, template, config, escrow) ==
    LET params == template.default_params
        timeout == IF config.timeout_override.some THEN config.timeout_override.v
                   ELSE IF params.default_timeout.some THEN params.default_timeout.v
                   ELSE s.now + DefaultTimeout
        fee_percent == IF config.fee_percent_override.some
                       THEN config.fee_percent_override.v
                       ELSE IF params.default_fee_percent.some
                       THEN params.default_fee_percent.v ELSE 5
        with_participants == params.multi_party_enabled /\ config.participant_configs.some
        pcs == IF with_participants THEN config.participant_configs.v ELSE <<>>
        with_milestones == params.milestone_enabled /\ config.milestone_configs.some
        mcs == IF with_milestones THEN config.milestone_configs.v ELSE <<>>
        e1 == [escrow EXCEPT !.expires_at = timeout, !.fee_percent = fee_percent]
        e2 == IF with_participants
              THEN [e1 EXCEPT !.participants =
                        [i \in 1..Len(pcs) |->
                            [account |-> pcs[i].account, role |-> pcs[i].role,
                             amount |-> pcs[i].amount, approved |-> FALSE]],
                              !.is_multi_party = TRUE]
              ELSE e1
        e3 == IF with_milestones
              THEN [e2 EXCEPT !.milestones =
                        [i \in 1..Len(mcs) |->
                            [id |-> i - 1, amount |-> mcs[i].amount,
                             completed |-> FALSE, approved_by |-> <<>>,
                             required_approvals |-> mcs[i].required_approvals]],
                              !.is_milestone_based = TRUE,
                              !.next_milestone_id = Len(mcs)]
              ELSE e2
        Fail(e) == [ok |-> FALSE, err |-> e, escrow |-> escrow]
    IN
    IF ~(fee_percent <= 100) THEN Fail("InvalidFeePercentage")
    ELSE IF params.min_amount.some /\ ~(escrow.amount >= params.min_amount.v)
    THEN Fail("InsufficientBalance")
    ELSE IF params.max_amount.some /\ ~(escrow.amount <= params.max_amount.v)
    THEN Fail("AmountTooLarge")
    ELSE IF with_participants /\ Len(pcs) = 0 THEN Fail("InvalidTemplateParams")
    ELSE IF /\ with_participants /\ params.max_participants.some
            /\ ~(Len(pcs) <= params.max_participants.v)
    THEN Fail("TooManyParticipants")
    ELSE IF with_participants /\ ~(Len(pcs) <= MaxParticipants)
    THEN Fail("TooManyParticipants")
    ELSE IF with_milestones /\ Len(mcs) = 0 THEN Fail("InvalidTemplateParams")
    ELSE IF /\ with_milestones /\ params.max_milestones.some
            /\ ~(Len(mcs) <= params.max_milestones.v)
    THEN Fail("TooManyMilestones")
    ELSE IF with_milestones /\ ~(Len(mcs) <= MaxMilestones)
    THEN Fail("TooManyMilestones")
    ELSE IF params.auto_accept_timeout.some
            /\ ~(params.auto_accept_timeout.v < e3.expires_at)
    THEN Fail("InvalidTemplateParams")
    ELSE [ok |-> TRUE, err |-> "", escrow |-> e3]

\* mutant: the amount is not held against the range of the template
create_escrow_from_template_any_amount(s, user, task_id, amount, config) ==
    IF ~(amount > 0) THEN Err("InsufficientBalance", s)
    ELSE IF ~(amount <= MaxEscrowAmount) THEN Err("AmountTooLarge", s)
    ELSE IF task_id \in DOMAIN s.escrows THEN Err("EscrowAlreadyExists", s)
    ELSE IF config.template_id \notin DOMAIN s.escrowTemplates
    THEN Err("TemplateNotFound", s)
    ELSE
    LET template == s.escrowTemplates[config.template_id]
        unbounded == [template EXCEPT !.default_params.min_amount = None,
                                      !.default_params.max_amount = None]
    IN
    IF ~template.is_active THEN Err("TemplateInactive", s)
    ELSE
        LET r == reserve(s, user, amount) IN
        IF ~r.ok THEN Err("InsufficientBalance", r.s)
        ELSE
            LET base == NewEscrow(s, task_id, user, amount, DefaultFeePercent,
                                  s.now + DefaultTimeout)
                a == apply_template_config(s, unbounded, config, base)
            IN
            IF ~a.ok THEN Err(a.err, r.s)
            ELSE
                LET s1 == [r.s EXCEPT !.escrows = Insert(@, task_id, a.escrow)]
                    s2 == [s1 EXCEPT !.userEscrows = PushIndex(@, user, task_id)]
                    u == increment_template_usage(s2, config.template_id)
                IN
                IF ~u.ok THEN u
                ELSE Ok(deposit_event(u.s, [name |-> "EscrowCreatedFromTemplate",
                                            task_id |-> task_id,
                                            template_id |-> config.template_id,
                                            user |-> user, amount |-> amount]))

create_escrow_from_template(s, user, task_id, amount, config) ==
    IF ~(amount > 0) THEN Err("InsufficientBalance", s)
    ELSE IF ~(amount <= MaxEscrowAmount) THEN Err("AmountTooLarge", s)
    ELSE IF task_id \in DOMAIN s.escrows THEN Err("EscrowAlreadyExists", s)
    ELSE IF config.template_id \notin DOMAIN s.escrowTemplates
    THEN Err("TemplateNotFound", s)
    ELSE
    LET template == s.escrowTemplates[config.template_id]
        params == template.default_params
    IN
    IF ~template.is_active THEN Err("TemplateInactive", s)
    ELSE IF params.min_amount.some /\ ~(amount >= params.min_amount.v)
    THEN Err("InsufficientBalance", s)
    ELSE IF params.max_amount.some /\ ~(amount <= params.max_amount.v)
    THEN Err("AmountTooLarge", s)
    ELSE
        LET r == reserve(s, user, amount) IN
        IF ~r.ok THEN Err("InsufficientBalance", r.s)
        ELSE
            LET default_timeout ==
                    IF config.timeout_override.some THEN config.timeout_override.v
                    ELSE IF params.default_timeout.some THEN params.default_timeout.v
                    ELSE DefaultTimeout
                expires_at == s.now + default_timeout
                fee_percent == IF config.fee_percent_override.some
                               THEN config.fee_percent_override.v
                               ELSE IF params.default_fee_percent.some
                               THEN params.default_fee_percent.v ELSE 5
                base == NewEscrow(s, task_id, user, amount, fee_percent, expires_at)
                a == apply_template_config(s, template, config, base)
            IN
            IF ~a.ok THEN Err(a.err, r.s)
            ELSE
                LET s1 == [r.s EXCEPT !.escrows = Insert(@, task_id, a.escrow)] IN
                IF ~(Len(s1.userEscrows[user]) < MaxIndexLen)
                THEN Err("TooManyUserEscrows", s1)
                ELSE
                    LET s2 == [s1 EXCEPT !.userEscrows = PushIndex(@, user, task_id)]
                        u == increment_template_usage(s2, config.template_id)
                    IN
                    IF ~u.ok THEN u
                    ELSE Ok(deposit_event(u.s, [name |-> "EscrowCreatedFromTemplate",
                                                task_id |-> task_id,
                                                template_id |-> config.template_id,
                                                user |-> user, amount |-> amount]))

deactivate_template(s, caller, template_id) ==
    IF template_id \notin DOMAIN s.escrowTemplates THEN Err("TemplateNotFound", s)
    ELSE
        LET template == s.escrowTemplates[template_id] IN
        IF template.template_type = "Custom" /\ template.created_by # caller
        THEN Err("NotTemplateCreator", s)
        ELSE
            LET s1 == [s EXCEPT !.escrowTemplates[template_id].is_active = FALSE]
            IN Ok(deposit_event(s1, [name |-> "TemplateDeactivated",
                                     template_id |-> template_id,
                                     deactivated_by |-> caller]))

(***************************************************************************)
(* VCG auction pallet: run_vcg_auction on a bid list.                      *)
(***************************************************************************)
RECURSIVE LowestBidLastWins(_, _, _)
\* mutant: among equal lowest amounts the bid placed last wins
LowestBidLastWins(bid_list, i, lowest) ==
    IF i > Len(bid_list) THEN lowest
    ELSE LowestBidLastWins(bid_list, i + 1,
                   IF bid_list[i].amount <= bid_list[lowest].amount THEN i ELSE lowest)

RECURSIVE HighestBid(_, _, _)
\* mutant: the first bid with the highest amount wins
HighestBid(bid_list, i, lowest) ==
    IF i > Len(bid_list) THEN lowest
    ELSE HighestBid(bid_list, i + 1,
                    IF bid_list[i].amount > bid_list[lowest].amount THEN i ELSE lowest)

RECURSIVE LowestBid(_, _, _)
\* the first loop: the index of the first bid with the lowest amount
LowestBid(bid_list, i, lowest) ==
    IF i > Len(bid_list) THEN lowest
    ELSE LowestBid(bid_list, i + 1,
                   IF bid_list[i].amount < bid_list[lowest].amount THEN i ELSE lowest)

RECURSIVE SecondLowestFirstFound(_, _, _, _, _)
\* mutant: the amount of the first bid of another agent, whatever follows
SecondLowestFirstFound(bid_list, i, lowest_did, second_lowest_amount, found_second) ==
    IF i > Len(bid_list)
    THEN [amount |-> second_lowest_amount, found |-> found_second]
    ELSE IF bid_list[i].agent_did # lowest_did /\ ~found_second
    THEN SecondLowestFirstFound(bid_list, i + 1, lowest_did, bid_list[i].amount, TRUE)
    ELSE SecondLowestFirstFound(bid_list, i + 1, lowest_did, second_lowest_amount,
                                found_second)

RECURSIVE SecondLowest(_, _, _, _, _)
\* the second loop: [amount, found] over the bids of the other agents
SecondLowest(bid_list, i, lowest_did, second_lowest_amount, found_second) ==
    IF i > Len(bid_list)
    THEN [amount |-> second_lowest_amount, found |-> found_second]
    ELSE IF /\ bid_list[i].agent_did # lowest_did
            /\ (~found_second \/ bid_list[i].amount < second_lowest_amount)
    THEN SecondLowest(bid_list, i + 1, lowest_did, bid_list[i].amount, TRUE)
    ELSE SecondLowest(bid_list, i + 1, lowest_did, second_lowest_amount, found_second)

RECURSIVE SecondLowestFallback(_, _, _, _)
\* the loop taken when the second loop found no bid of another agent
SecondLowestFallback(bid_list, i, lowest, second_lowest_amount) ==
    IF i > Len(bid_list) THEN second_lowest_amount
    ELSE IF /\ bid_list[i].agent_did # bid_list[lowest].agent_did
            /\ (\/ second_lowest_amount = bid_list[lowest].amount
                \/ bid_list[i].amount < second_lowest_amount)
    THEN SecondLowestFallback(bid_list, i + 1, lowest, bid_list[i].amount)
    ELSE SecondLowestFallback(bid_list, i + 1, lowest, second_lowest_amount)

RECURSIVE SocialWelfare(_, _, _)
SocialWelfare(bid_list, i, lowest_did) ==
    IF i > Len(bid_list) THEN 0
    ELSE (IF bid_list[i].agent_did # lowest_did THEN bid_list[i].amount ELSE 0)
             + SocialWelfare(bid_list, i + 1, lowest_did)

\* mutant: the winner is paid its own bid
run_first_price_auction(bid_list) ==
    IF bid_list = <<>> THEN [ok |-> FALSE, err |-> "NoBidsToFinalize"]
    ELSE
        LET lowest == LowestBid(bid_list, 1, 1) IN
        [ok |-> TRUE, err |-> "",
         winner_did |-> bid_list[lowest].agent_did,
         winning_bid |-> bid_list[lowest].amount,
         payment_amount |-> bid_list[lowest].amount,
         social_welfare |-> SocialWelfare(bid_list, 1, bid_list[lowest].agent_did)]

run_vcg_auction(bid_list) ==
    IF bid_list = <<>> THEN [ok |-> FALSE, err |-> "NoBidsToFinalize"]
    ELSE
        LET lowest == LowestBid(bid_list, 1, 1)
            lowest_bid == bid_list[lowest]
            second_lowest_amount ==
                IF Len(bid_list) = 1 THEN lowest_bid.amount
                ELSE
                    LET second == SecondLowest(bid_list, 1, lowest_bid.agent_did,
                                               lowest_bid.amount, FALSE)
                    IN IF ~second.found
                       THEN SecondLowestFallback(bid_list, 1, lowest, second.amount)
                       ELSE second.amount
        IN
        [ok |-> TRUE, err |-> "",
         winner_did |-> lowest_bid.agent_did,
         winning_bid |-> lowest_bid.amount,
         payment_amount |-> second_lowest_amount,
         social_welfare |-> SocialWelfare(bid_list, 1, lowest_bid.agent_did)]

(***************************************************************************)
(* VCG auction pallet: the dispatchables.                                  *)
(***************************************************************************)
create_auction(s, who, task_hash, required_capabilities, duration) ==
    IF Len(required_capabilities) > MaxCapabilities THEN Err("TooManyBids", s)
    ELSE
        LET auction_id == s.nextAuctionId
            auction_duration == IF duration.some THEN duration.v
                                ELSE DefaultAuctionDuration
            auction == [auction_id |-> auction_id, task_hash |-> task_hash,
                        required_capabilities |-> required_capabilities,
                        bids |-> <<>>, created_at |-> s.now,
                        ends_at |-> s.now + auction_duration,
                        status |-> "Open", winner |-> None,
                        payment_amount |-> None]
            s1 == [s EXCEPT !.auctions = Insert(@, auction_id, auction),
                            !.nextAuctionId = auction_id + 1]
        IN Ok(deposit_event(s1, [name |-> "AuctionCreated",
                                 auction_id |-> auction_id]))

\* the loop over auction.required_capabilities: the card has every one
HasRequiredCapabilities(agent_card, required_capabilities) ==
    \A i \in 1..Len(required_capabilities) :
        Contains(agent_card.capabilities, required_capabilities[i])

\* the loop over auction.bids: agent_did has a bid among them
AlreadyBid(bid_list, agent_did) ==
    \E i \in 1..Len(bid_list) : bid_list[i].agent_did = agent_did

\* mutant: place_bid without the loop over the bids already placed
place_bid_again(s, who, auction_id, amount) ==
    IF auction_id \notin DOMAIN s.auctions THEN Err("AuctionNotFound", s)
    ELSE
    LET auction == s.auctions[auction_id]
        agent_did == Encode(who)
        agent_card == get_agent_card(s, agent_did)
    IN
    IF auction.status # "Open" THEN Err("AuctionNotOpen", s)
    ELSE IF ~(s.now < auction.ends_at) THEN Err("AuctionEnded", s)
    ELSE IF ~(amount >= MinimumBidAmount) THEN Err("BidTooLow", s)
    ELSE IF ~agent_card.some THEN Err("AgentNotRegistered", s)
    ELSE IF ~HasRequiredCapabilities(agent_card.v, auction.required_capabilities)
    THEN Err("AgentLacksCapabilities", s)
    ELSE IF Len(auction.bids) >= MaxBidsPerAuction THEN Err("TooManyBids", s)
    ELSE
        LET bid == [agent_did |-> agent_did, amount |-> amount, placed_at |-> s.now]
            s1 == [s EXCEPT !.auctions[auction_id].bids = Append(@, bid)]
            s2 == [s1 EXCEPT !.agentAuctionIndex =
                      Insert(@, agent_did, Append(ListAt(@, agent_did), auction_id))]
        IN Ok(deposit_event(s2, [name |-> "BidPlaced",
                                 auction_id |-> auction_id,
                                 agent_did |-> agent_did, amount |-> amount]))

place_bid(s, who, auction_id, amount) ==
    IF auction_id \notin DOMAIN s.auctions THEN Err("AuctionNotFound", s)
    ELSE
    LET auction == s.auctions[auction_id]
        agent_did == Encode(who)
        agent_card == get_agent_card(s, agent_did)
    IN
    IF auction.status # "Open" THEN Err("AuctionNotOpen", s)
    ELSE IF ~(s.now < auction.ends_at) THEN Err("AuctionEnded", s)
    ELSE IF ~(amount >= MinimumBidAmount) THEN Err("BidTooLow", s)
    ELSE IF ~agent_card.some THEN Err("AgentNotRegistered", s)
    ELSE IF ~HasRequiredCapabilities(agent_card.v, auction.required_capabilities)
    THEN Err("AgentLacksCapabilities", s)
    ELSE IF AlreadyBid(auction.bids, agent_did) THEN Err("AgentAlreadyBid", s)
    ELSE IF Len(auction.bids) >= MaxBidsPerAuction THEN Err("TooManyBids", s)
    ELSE
        LET bid == [agent_did |-> agent_did, amount |-> amount, placed_at |-> s.now]
            s1 == [s EXCEPT !.auctions[auction_id].bids = Append(@, bid)]
        IN
        IF Len(ListAt(s1.agentAuctionIndex, agent_did)) >= MaxAuctionsPerAgent
        THEN Err("TooManyBids", s1)
        ELSE
            LET s2 == [s1 EXCEPT !.agentAuctionIndex =
                          Insert(@, agent_did, Append(ListAt(@, agent_did), auction_id))]
            IN Ok(deposit_event(s2, [name |-> "BidPlaced",
                                     auction_id |-> auction_id,
                                     agent_did |-> agent_did, amount |-> amount]))

\* mutant: finalize_auction without the check that the auction has ended
finalize_auction_at_any_block(s, who, auction_id) ==
    IF auction_id \notin DOMAIN s.auctions THEN Err("AuctionNotFound", s)
    ELSE
    LET auction == s.auctions[auction_id] IN
    IF auction.status # "Open" THEN Err("AuctionNotOpen", s)
    ELSE IF auction.bids = <<>> THEN Err("NoBidsToFinalize", s)
    ELSE
        LET result == run_vcg_auction(auction.bids)
            s1 == [s EXCEPT !.auctions[auction_id].status = "Finalized",
                            !.auctions[auction_id].winner = Some(result.winner_did),
                            !.auctions[auction_id].payment_amount =
                                Some(result.payment_amount)]
        IN Ok(deposit_event(s1, [name |-> "AuctionFinalized",
                                 auction_id |-> auction_id,
                                 winner_did |-> result.winner_did,
                                 winning_bid |-> result.winning_bid,
                                 payment_amount |-> result.payment_amount]))

finalize_auction(s, who, auction_id) ==
    IF auction_id \notin DOMAIN s.auctions THEN Err("AuctionNotFound", s)
    ELSE
    LET auction == s.auctions[auction_id] IN
    IF auction.status # "Open" THEN Err("AuctionNotOpen", s)
    ELSE IF ~(s.now >= auction.ends_at) THEN Err("AuctionNotOpen", s)
    ELSE IF auction.bids = <<>> THEN Err("NoBidsToFinalize", s)
    ELSE
        LET vcg == run_vcg_auction(auction.bids) IN
        IF ~vcg.ok THEN Err(vcg.err, s)
        ELSE
        LET s1 == [s EXCEPT !.auctions[auction_id].status = "Finalized",
                            !.auctions[auction_id].winner = Some(vcg.winner_did),
                            !.auctions[auction_id].payment_amount =
                                Some(vcg.payment_amount)]
        IN Ok(deposit_event(s1, [name |-> "AuctionFinalized",
                                 auction_id |-> auction_id,
                                 winner_did |-> vcg.winner_did,
                                 winning_bid |-> vcg.winning_bid,
                                 payment_amount |-> vcg.payment_amount]))

\* mutant: cancel_auction on an open auction that has bids
cancel_auction_with_bids(s, who, auction_id) ==
    IF auction_id \notin DOMAIN s.auctions THEN Err("AuctionNotFound", s)
    ELSE IF s.auctions[auction_id].status # "Open" THEN Err("CannotCancelAuction", s)
    ELSE
        LET s1 == [s EXCEPT !.auctions[auction_id].status = "Cancelled"]
        IN Ok(deposit_event(s1, [name |-> "AuctionCancelled",
                                 auction_id |-> auction_id]))

cancel_auction(s, who, auction_id) ==
    IF auction_id \notin DOMAIN s.auctions THEN Err("AuctionNotFound", s)
    ELSE IF s.auctions[auction_id].status # "Open" THEN Err("CannotCancelAuction", s)
    ELSE IF s.auctions[auction_id].bids # <<>> THEN Err("CannotCancelAuction", s)
    ELSE
        LET s1 == [s EXCEPT !.auctions[auction_id].status = "Cancelled"]
        IN Ok(deposit_event(s1, [name |-> "AuctionCancelled",
                                 auction_id |-> auction_id]))

(***************************************************************************)
(* The storage layer of #[pallet::call] and the extrinsic step.  A failed  *)
(* extrinsic commits nothing; it is a step of the model (recorded in last) *)
(* only where record_failed asks for it, and a stuttering step otherwise.  *)
(***************************************************************************)
\* mutant: a dispatch whose storage changes stay when it fails
no_storage_layer(pre, r) == r

with_storage_layer(pre, r) == IF r.ok THEN r ELSE [r EXCEPT !.s = pre]

Extrinsic(call, caller, args, r, record_failed) ==
    LET c == with_storage_layer(Storage, r) IN
    /\ c.ok \/ record_failed
    /\ now' = c.s.now
    /\ free' = c.s.free
    /\ reserved' = c.s.reserved
    /\ escrows' = c.s.escrows
    /\ policies' = c.s.policies
    /\ userEscrows' = c.s.userEscrows
    /\ agentEscrows' = c.s.agentEscrows
    /\ participantEscrows' = c.s.participantEscrows
    /\ batchCounters' = c.s.batchCounters
    /\ batchInProgress' = c.s.batchInProgress
    /\ didDocuments' = c.s.didDocuments
    /\ accountToDid' = c.s.accountToDid
    /\ agentCards' = c.s.agentCards
    /\ capabilityIndex' = c.s.capabilityIndex
    /\ auctions' = c.s.auctions
    /\ nextAuctionId' = c.s.nextAuctionId
    /\ agentAuctionIndex' = c.s.agentAuctionIndex
    /\ reputationStakes' = c.s.reputationStakes
    /\ escrowTemplates' = c.s.escrowTemplates
    /\ nextTemplateId' = c.s.nextTemplateId
    /\ templatesByCreator' = c.s.templatesByCreator
    /\ events' = c.s.events
    /\ paidOut' = c.s.paidOut
    /\ UNCHANGED <<bids, vcg_result>>
    /\ before' = [free |-> free, reserved |-> reserved]
    /\ last' = [call |-> call, caller |-> caller, args |-> args, ok |-> c.ok,
                err |-> c.err]

(***************************************************************************)
(* Initial state: genesis of the mock runtime.                             *)
(***************************************************************************)
Init ==
    /\ now = 0
    /\ free = [a \in Accounts |-> IF a \in Signers THEN InitialBalance ELSE 0]
    /\ reserved = [a \in Accounts |-> 0]
    /\ escrows = << >>
    /\ policies = << >>
    /\ userEscrows = [a \in Accounts |-> <<>>]
    /\ agentEscrows = [d \in Dids |-> <<>>]
    /\ participantEscrows = [a \in Accounts |-> <<>>]
    /\ batchCounters = <<0, 0>>
    /\ batchInProgress = {}
    /\ didDocuments = << >>
    /\ accountToDid = << >>
    /\ agentCards = << >>
    /\ capabilityIndex = << >>
    /\ auctions = << >>
    /\ nextAuctionId = 0
    /\ agentAuctionIndex = << >>
    /\ reputationStakes = << >>
    /\ escrowTemplates = << >>
    /\ nextTemplateId = 0
    /\ templatesByCreator = << >>
    /\ events = <<>>
    /\ bids = <<>>
    /\ vcg_result = None
    /\ paidOut = [t \in Tasks |-> 0]
    /\ before = [free |-> free, reserved |-> reserved]
    /\ last = [call |-> "genesis", caller |-> NoAccount, args |-> <<>>, ok |-> TRUE,
               err |-> ""]

(***************************************************************************)
(* Inputs of the dispatchables.                                            *)
(***************************************************************************)
Policy(policy_type, can_override, override_authority) ==
    [policy_type |-> policy_type, can_override |-> can_override,
     override_authority |-> override_authority, created_at |-> 0]

Standard == [tag |-> "Standard"]
DisputeBased == [tag |-> "DisputeBased"]
CancellationFee(fee_amount) == [tag |-> "CancellationFee", fee_amount |-> fee_amount]
NoRefund(deadline) == [tag |-> "NoRefund", work_start_deadline |-> deadline]
TimeBased(deadline, percentage) ==
    [tag |-> "TimeBased", full_refund_deadline |-> deadline,
     partial_refund_percentage |-> percentage]
Graduated(stages) == [tag |-> "Graduated", stages |-> stages]
Conditional(milestones_completed, refund_percentages) ==
    [tag |-> "Conditional", milestones_completed |-> milestones_completed,
     refund_percentages |-> refund_percentages]

\* policies set on escrows in the lifecycle specification
LifecyclePolicies == {Policy(CancellationFee(5), TRUE, "bob")}

SeqsUpTo(S, n) == UNION {[1..k -> S] : k \in 1..n}

Requests(tasks, amounts, policy_options) ==
    {[task_id |-> t, amount |-> a, timeout_blocks |-> None, refund_policy |-> p] :
        t \in tasks, a \in amounts, p \in policy_options}

(***************************************************************************)
(* Actions: one per dispatchable, inputs drawn from the bounded sets.      *)
(***************************************************************************)
AdvanceBlock ==
    /\ now < MaxBlock
    /\ now' = now + 1
    /\ events' = <<>>
    /\ before' = [free |-> free, reserved |-> reserved]
    /\ last' = [call |-> "on_initialize", caller |-> NoAccount, args |-> <<>>,
                ok |-> TRUE, err |-> ""]
    /\ UNCHANGED <<free, reserved, escrows, policies, userEscrows, agentEscrows,
                   participantEscrows, batchCounters, batchInProgress,
                   didDocuments, accountToDid, agentCards, capabilityIndex,
                   auctions, nextAuctionId, agentAuctionIndex, reputationStakes,
                   escrowTemplates, nextTemplateId, templatesByCreator,
                   bids, vcg_result, paidOut>>

CreateDid(controllers) ==
    \E who \in controllers, did \in Dids :
        Extrinsic("create_did", who, <<did>>,
                  create_did(Storage, who, did, "key1"), FALSE)

CreateEscrow(users, amounts, timeouts) ==
    \E user \in users, task_id \in Tasks, amount \in amounts, timeout \in timeouts :
        Extrinsic("create_escrow", user, <<task_id>>,
                  create_escrow(Storage, user, task_id, amount, timeout), FALSE)

AcceptTask(agents) ==
    \E who \in agents, task_id \in Tasks, did \in Dids :
        Extrinsic("accept_task", who, <<task_id>>,
                  accept_task(Storage, who, task_id, did), FALSE)

ReleasePayment ==
    \E who \in Signers, task_id \in Tasks :
        Extrinsic("release_payment", who, <<task_id>>,
                  release_payment(Storage, who, task_id), FALSE)

RefundEscrow ==
    \E who \in Signers, task_id \in Tasks :
        Extrinsic("refund_escrow", who, <<task_id>>,
                  refund_escrow(Storage, who, task_id), FALSE)

DisputeEscrow ==
    \E who \in Signers, task_id \in Tasks :
        Extrinsic("dispute_escrow", who, <<task_id>>,
                  dispute_escrow(Storage, who, task_id), FALSE)

AddParticipant(roles, amounts) ==
    \E who \in Signers, task_id \in Tasks, participant \in Signers,
       role \in roles, amount \in amounts :
        /\ Len(participantEscrows[participant]) < MaxParticipantAdds
        /\ Extrinsic("add_participant", who, <<task_id>>,
                     add_participant(Storage, who, task_id, participant, role, amount),
                     FALSE)

RemoveParticipant ==
    \E who \in Signers, task_id \in Tasks, participant \in Signers :
        Extrinsic("remove_participant", who, <<task_id>>,
                  remove_participant(Storage, who, task_id, participant), FALSE)

AddMilestone(amounts, approvals) ==
    \E who \in Signers, task_id \in Tasks, amount \in amounts, required \in approvals :
        /\ task_id \in DOMAIN escrows
        /\ Len(escrows[task_id].milestones) < MaxMilestonesPerEscrow
        /\ Extrinsic("add_milestone", who, <<task_id>>,
                     add_milestone(Storage, who, task_id, amount, required), FALSE)

CompleteMilestone ==
    \E who \in Signers, task_id \in Tasks, milestone_id \in 0..(MaxMilestonesPerEscrow - 1) :
        Extrinsic("complete_milestone", who, <<task_id>>,
                  complete_milestone(Storage, who, task_id, milestone_id), FALSE)

ApproveMilestone ==
    \E who \in Signers, task_id \in Tasks, milestone_id \in 0..(MaxMilestonesPerEscrow - 1) :
        Extrinsic("approve_milestone", who, <<task_id>>,
                  approve_milestone(Storage, who, task_id, milestone_id), FALSE)

SetRefundPolicy(policy_inputs) ==
    \E who \in Signers, task_id \in Tasks, policy \in policy_inputs :
        Extrinsic("set_refund_policy", who, <<task_id>>,
                  set_refund_policy(Storage, who, task_id, policy), FALSE)

OverrideRefundAmount(override_amounts) ==
    \E who \in Signers, task_id \in Tasks, amount \in override_amounts :
        Extrinsic("override_refund_amount", who, <<task_id>>,
                  override_refund_amount(Storage, who, task_id, amount), FALSE)

BatchCreateEscrow(users, amounts, policy_options, record_failed) ==
    \E user \in users, requests \in SeqsUpTo(Requests(Tasks, amounts, policy_options),
                                                MaxBatchLen) :
        Extrinsic("batch_create_escrow", user,
                  [i \in 1..Len(requests) |-> requests[i].task_id],
                  batch_create_escrow(Storage, user, requests), record_failed)

BatchReleasePayment(record_failed) ==
    \E who \in Signers, task_ids \in SeqsUpTo(Tasks, MaxBatchLen) :
        Extrinsic("batch_release_payment", who, task_ids,
                  batch_release_payment(Storage, who, task_ids), record_failed)

BatchRefundEscrow(record_failed) ==
    \E who \in Signers, task_ids \in SeqsUpTo(Tasks, MaxBatchLen) :
        Extrinsic("batch_refund_escrow", who, task_ids,
                  batch_refund_escrow(Storage, who, task_ids), record_failed)

BatchDisputeEscrow(record_failed) ==
    \E who \in Signers, task_ids \in SeqsUpTo(Tasks, MaxBatchLen) :
        Extrinsic("batch_dispute_escrow", who, task_ids,
                  batch_dispute_escrow(Storage, who, task_ids), record_failed)

(***************************************************************************)
(* Spec: the life cycle of escrows, their refund policies and the batch    *)
(* dispatchables, all within one block.                                    *)
(***************************************************************************)
Next ==
    \/ CreateDid({"bob"})
    \/ CreateEscrow({"alice"}, Amounts, {None})
    \/ AcceptTask(Signers)
    \/ ReleasePayment
    \/ RefundEscrow
    \/ DisputeEscrow
    \/ SetRefundPolicy(LifecyclePolicies)
    \/ OverrideRefundAmount({0, 30})
    \/ BatchCreateEscrow({"alice"}, Amounts, {None}, FALSE)
    \/ BatchReleasePayment(FALSE)
    \/ BatchRefundEscrow(FALSE)
    \/ BatchDisputeEscrow(FALSE)

Spec == Init /\ [][Next]_vars

(***************************************************************************)
(* SpecRefund: refunds under every kind of refund policy, over two blocks. *)
(***************************************************************************)
RefundPolicies ==
    {Policy(pt, FALSE, NoAccount) :
        pt \in {Standard, CancellationFee(5), CancellationFee(30), NoRefund(0),
                TimeBased(0, 50)}}

BatchPolicyOptions ==
    {None, Some(Policy(Standard, FALSE, NoAccount)),
     Some(Policy(CancellationFee(5), FALSE, NoAccount))}

NextRefund ==
    \/ AdvanceBlock
    \/ CreateDid({"bob"})
    \/ CreateEscrow({"alice"}, Amounts, {Some(1)})
    \/ BatchCreateEscrow({"alice"}, Amounts, BatchPolicyOptions, FALSE)
    \/ SetRefundPolicy(RefundPolicies)
    \/ AcceptTask({"bob"})
    \/ RefundEscrow
    \/ BatchRefundEscrow(FALSE)

SpecRefund == Init /\ [][NextRefund]_vars

(***************************************************************************)
(* SpecMilestone: multi-party escrows and milestones.                      *)
(***************************************************************************)
MilestoneAmounts == {20}

NextMilestone ==
    \/ CreateDid({"bob"})
    \/ CreateEscrow({"alice"}, Amounts, {None})
    \/ AcceptTask({"bob"})
    \/ AddParticipant({"Payer", "Payee"}, MilestoneAmounts)
    \/ RemoveParticipant
    \/ AddMilestone(MilestoneAmounts, {1, 2})
    \/ CompleteMilestone
    \/ ApproveMilestone
    \/ ReleasePayment
    \/ RefundEscrow
    \/ DisputeEscrow

SpecMilestone == Init /\ [][NextMilestone]_vars

(***************************************************************************)
(* SpecBatch: the batch dispatchables with their failures: a batch call    *)
(* that returns an error is a step, recorded in last.                      *)
(***************************************************************************)
BatchAmounts == {30, 31}

NextBatch ==
    \/ CreateDid({"bob"})
    \/ CreateEscrow({"alice"}, Amounts, {None})
    \/ AcceptTask({"bob"})
    \/ BatchCreateEscrow({"alice"}, BatchAmounts, {None}, TRUE)
    \/ BatchReleasePayment(TRUE)
    \/ BatchRefundEscrow(TRUE)
    \/ BatchDisputeEscrow(TRUE)

SpecBatch == Init /\ [][NextBatch]_vars

(***************************************************************************)
(* SpecVcg: run_vcg_auction on every bid list an auction can hold within   *)
(* the bounds: place_bid admits one bid per agent, each of at least        *)
(* MinimumBidAmount.                                                       *)
(***************************************************************************)
Bidders == {"did:a", "did:b", "did:c"}
BidAmounts == {MinimumBidAmount, 15, 20}

BidLists ==
    {l \in SeqsUpTo([agent_did : Bidders, amount : BidAmounts], MaxBids) :
        \A i, j \in 1..Len(l) : i # j => l[i].agent_did # l[j].agent_did}

InitVcg ==
    /\ now = 0
    /\ free = [a \in Accounts |-> IF a \in Signers THEN InitialBalance ELSE 0]
    /\ reserved = [a \in Accounts |-> 0]
    /\ escrows = << >>
    /\ policies = << >>
    /\ userEscrows = [a \in Accounts |-> <<>>]
    /\ agentEscrows = [d \in Dids |-> <<>>]
    /\ participantEscrows = [a \in Accounts |-> <<>>]
    /\ batchCounters = <<0, 0>>
    /\ batchInProgress = {}
    /\ didDocuments = << >>
    /\ accountToDid = << >>
    /\ agentCards = << >>
    /\ capabilityIndex = << >>
    /\ auctions = << >>
    /\ nextAuctionId = 0
    /\ agentAuctionIndex = << >>
    /\ reputationStakes = << >>
    /\ escrowTemplates = << >>
    /\ nextTemplateId = 0
    /\ templatesByCreator = << >>
    /\ events = <<>>
    /\ bids \in BidLists
    /\ vcg_result = None
    /\ paidOut = [t \in Tasks |-> 0]
    /\ before = [free |-> free, reserved |-> reserved]
    /\ last = [call |-> "genesis", caller |-> NoAccount, args |-> <<>>, ok |-> TRUE,
               err |-> ""]

RunVcgAuction ==
    /\ ~vcg_result.some
    /\ vcg_result' = Some(run_vcg_auction(bids))
    /\ UNCHANGED <<now, free, reserved, escrows, policies, userEscrows, agentEscrows,
                   participantEscrows, batchCounters, batchInProgress, didDocuments,
                   accountToDid, agentCards, capabilityIndex, auctions,
                   nextAuctionId, agentAuctionIndex, reputationStakes,
                   escrowTemplates, nextTemplateId, templatesByCreator,
                   events, bids, paidOut, before, last>>

NextVcg == RunVcgAuction

SpecVcg == InitVcg /\ [][NextVcg]_vars

(***************************************************************************)
(* SpecAuction: the auction pallet over pallet_did and pallet_registry.    *)
(* An auction created at block 0 with a duration of one block takes bids   *)
(* at block 0 and is finalized at block 1.                                 *)
(***************************************************************************)
CapabilityLists == {<<"math">>, <<"text">>}
RequiredCapabilities == {<<"math">>}
AuctionBidAmounts == {100, 150, 200}
AuctionDurations == {Some(1)}

CreateAgentDid(signers) ==
    \E who \in signers :
        Extrinsic("create_did", who, <<Encode(who)>>,
                  create_did(Storage, who, Encode(who), "key1"), FALSE)

RegisterAgent(signers, capability_lists) ==
    \E who \in signers, capabilities \in capability_lists :
        Extrinsic("register_agent", who, <<Encode(who)>>,
                  register_agent(Storage, who, Encode(who), "agent", capabilities,
                                 "wasm", 100), FALSE)

UpdateAgent(signers, capability_lists) ==
    \E who \in signers, capabilities \in capability_lists :
        Extrinsic("update_agent", who, <<Encode(who)>>,
                  update_agent(Storage, who, Encode(who), Some(capabilities), None),
                  FALSE)

DeregisterAgent(signers) ==
    \E who \in signers :
        Extrinsic("deregister_agent", who, <<Encode(who)>>,
                  deregister_agent(Storage, who, Encode(who)), FALSE)

CreateAuction(signers, capability_lists, durations) ==
    \E who \in signers, required \in capability_lists, duration \in durations :
        /\ nextAuctionId < MaxAuctions
        /\ Extrinsic("create_auction", who, <<nextAuctionId>>,
                     create_auction(Storage, who, "task", required, duration), FALSE)

PlaceBid(signers, amounts, record_failed) ==
    \E who \in signers, auction_id \in DOMAIN auctions, amount \in amounts :
        Extrinsic("place_bid", who, <<auction_id>>,
                  place_bid(Storage, who, auction_id, amount), record_failed)

FinalizeAuction(signers, record_failed) ==
    \E who \in signers, auction_id \in DOMAIN auctions :
        Extrinsic("finalize_auction", who, <<auction_id>>,
                  finalize_auction(Storage, who, auction_id), record_failed)

CancelAuction(signers) ==
    \E who \in signers, auction_id \in DOMAIN auctions :
        Extrinsic("cancel_auction", who, <<auction_id>>,
                  cancel_auction(Storage, who, auction_id), FALSE)

NextAuction ==
    \/ AdvanceBlock
    \/ CreateAgentDid(AuctionSigners)
    \/ RegisterAgent({"ann", "ben"}, RequiredCapabilities)
    \/ RegisterAgent({"cat", "dan"}, CapabilityLists)
    \/ UpdateAgent({"cat"}, CapabilityLists)
    \/ DeregisterAgent({"cat"})
    \/ CreateAuction({"ann"}, RequiredCapabilities, AuctionDurations)
    \/ PlaceBid({"ann", "cat", "dan"}, {100, 200}, FALSE)
    \/ PlaceBid({"ben"}, AuctionBidAmounts, FALSE)
    \/ FinalizeAuction({"ann"}, FALSE)
    \/ CancelAuction({"ann"})

SpecAuction == Init /\ [][NextAuction]_vars

(***************************************************************************)
(* SpecReputation: the reputation pallet on its own.  SpecStake: the       *)
(* reputation and escrow pallets over the same currency.                   *)
(***************************************************************************)
InitStake ==
    /\ now = 0
    /\ free = [a \in Accounts |-> IF a \in Signers THEN StakeBalance ELSE 0]
    /\ reserved = [a \in Accounts |-> 0]
    /\ escrows = << >>
    /\ policies = << >>
    /\ userEscrows = [a \in Accounts |-> <<>>]
    /\ agentEscrows = [d \in Dids |-> <<>>]
    /\ participantEscrows = [a \in Accounts |-> <<>>]
    /\ batchCounters = <<0, 0>>
    /\ batchInProgress = {}
    /\ didDocuments = << >>
    /\ accountToDid = << >>
    /\ agentCards = << >>
    /\ capabilityIndex = << >>
    /\ auctions = << >>
    /\ nextAuctionId = 0
    /\ agentAuctionIndex = << >>
    /\ reputationStakes = << >>
    /\ escrowTemplates = << >>
    /\ nextTemplateId = 0
    /\ templatesByCreator = << >>
    /\ events = <<>>
    /\ bids = <<>>
    /\ vcg_result = None
    /\ paidOut = [t \in Tasks |-> 0]
    /\ before = [free |-> free, reserved |-> reserved]
    /\ last = [call |-> "genesis", caller |-> NoAccount, args |-> <<>>, ok |-> TRUE,
               err |-> ""]

BondReputation(signers, values) ==
    \E who \in signers, value \in values :
        /\ who \in DOMAIN reputationStakes
               => reputationStakes[who].staked + value <= MaxStaked
        /\ Extrinsic("bond_reputation", who, <<value>>,
                     bond_reputation(Storage, who, value), FALSE)

UnbondReputation(signers, values) ==
    \E who \in signers, value \in values :
        Extrinsic("unbond_reputation", who, <<value>>,
                  unbond_reputation(Storage, who, value), FALSE)

ReportOutcome(agents, outcomes, max_successes, max_failures) ==
    \E agent \in agents \cap DOMAIN reputationStakes, success \in outcomes :
        /\ success => reputationStakes[agent].tasks_completed < max_successes
        /\ ~success => reputationStakes[agent].tasks_failed < max_failures
        /\ Extrinsic("report_outcome", OrchestratorOrigin, <<agent, success>>,
                     report_outcome(Storage, OrchestratorOrigin, agent, "task",
                                    success), FALSE)

SlashSevere(agents, offense_codes) ==
    \E agent \in agents \cap DOMAIN reputationStakes, offense_code \in offense_codes :
        /\ reputationStakes[agent].slashed < MaxSlashed
        /\ Extrinsic("slash_severe", SlashingOrigin, <<agent, offense_code>>,
                     slash_severe(Storage, SlashingOrigin, agent, offense_code), FALSE)

StakeValues == {100}

NextReputation ==
    \/ BondReputation({"alice"}, StakeValues)
    \/ UnbondReputation({"alice"}, StakeValues)
    \/ ReportOutcome({"alice"}, BOOLEAN, MaxFailures, MaxFailures)
    \/ SlashSevere({"alice"}, {0})

SpecReputation == InitStake /\ [][NextReputation]_vars

\* SpecGrowth: one agent's score from the first bond up to the maximum
NextGrowth ==
    \/ BondReputation({"alice"}, StakeValues)
    \/ ReportOutcome({"alice"}, BOOLEAN, MaxSuccesses, 1)
    \/ SlashSevere({"alice"}, {0})

SpecGrowth == InitStake /\ [][NextGrowth]_vars

StakeEscrowAmounts == {100}

NextStake ==
    \/ BondReputation({"alice"}, StakeValues)
    \/ UnbondReputation({"alice"}, StakeValues)
    \/ ReportOutcome({"alice"}, {FALSE}, 0, MaxFailures)
    \/ CreateEscrow({"alice"}, StakeEscrowAmounts, {None})
    \/ SetRefundPolicy(LifecyclePolicies)
    \/ RefundEscrow
    \/ OverrideRefundAmount(StakeEscrowAmounts)

SpecStake == InitStake /\ [][NextStake]_vars

(***************************************************************************)
(* SpecDid: the dispatchables of the DID pallet, called by the controller  *)
(* of a DID and by another account; failed calls are recorded in last.     *)
(***************************************************************************)
DidSigners == {"alice", "bob"}

DidIdentifiers == {AgentDid, Encode("ann")}

CreateDidWithKey(signers, dids, public_keys) ==
    \E who \in signers, did \in dids, public_key \in public_keys :
        Extrinsic("create_did", who, <<did>>,
                  create_did(Storage, who, did, public_key), TRUE)

UpdateKey(signers, dids, public_keys) ==
    \E who \in signers, did \in dids, new_public_key \in public_keys :
        Extrinsic("update_key", who, <<did>>,
                  update_key(Storage, who, did, new_public_key), TRUE)

RevokeDid(signers, dids) ==
    \E who \in signers, did \in dids :
        Extrinsic("revoke_did", who, <<did>>, revoke_did(Storage, who, did), TRUE)

NextDid ==
    \/ AdvanceBlock
    \/ CreateDidWithKey(DidSigners, DidIdentifiers, PublicKeys)
    \/ UpdateKey(DidSigners, DidIdentifiers, PublicKeys)
    \/ RevokeDid(DidSigners, DidIdentifiers)

SpecDid == Init /\ [][NextDid]_vars

(***************************************************************************)
(* SpecAccept: accepting escrows with a DID whose controller updates and   *)
(* revokes it, over two blocks; failed accept_task calls are recorded.     *)
(***************************************************************************)
AcceptTaskAttempt(agents) ==
    \E who \in agents, task_id \in Tasks, did \in Dids :
        Extrinsic("accept_task", who, <<task_id>>,
                  accept_task(Storage, who, task_id, did), TRUE)

NextAccept ==
    \/ AdvanceBlock
    \/ CreateDid({"bob"})
    \/ UpdateKey({"bob"}, Dids, PublicKeys)
    \/ RevokeDid({"bob"}, Dids)
    \/ CreateEscrow({"alice"}, Amounts, {Some(1)})
    \/ AcceptTaskAttempt({"bob"})
    \/ RefundEscrow

SpecAccept == Init /\ [][NextAccept]_vars

(***************************************************************************)
(* SpecOverride: refund policies with and without an override authority,   *)
(* set, replaced and overridden by the user and by another account.        *)
(***************************************************************************)
OverridePolicies ==
    {Policy(Standard, FALSE, NoAccount), Policy(Standard, TRUE, NoAccount),
     Policy(Standard, TRUE, "alice"), Policy(Standard, TRUE, "bob")}

OverrideAmounts == {0, 10, 30, 31}

UpdateRefundPolicy(policy_inputs) ==
    \E who \in Signers, task_id \in Tasks, new_policy \in policy_inputs :
        Extrinsic("update_refund_policy", who, <<task_id>>,
                  update_refund_policy(Storage, who, task_id, new_policy), FALSE)

NextOverride ==
    \/ CreateEscrow({"alice"}, Amounts, {None})
    \/ SetRefundPolicy(OverridePolicies)
    \/ UpdateRefundPolicy(OverridePolicies)
    \/ OverrideRefundAmount(OverrideAmounts)
    \/ RefundEscrow

SpecOverride == Init /\ [][NextOverride]_vars

(***************************************************************************)
(* SpecTemplate: custom templates with and without an amount range,        *)
(* created and deactivated by two accounts, and escrows created from them  *)
(* with amounts below, inside and above the range; failed                  *)
(* create_escrow_from_template calls are recorded in last.                 *)
(***************************************************************************)
TemplateTypes == {"Custom", "SimplePayment"}
TemplateParamInputs ==
    {TemplateParams(None, Some(20), Some(40), FALSE),
     TemplateParams(None, Some(20), None, TRUE),
     TemplateParams(None, Some(40), Some(20), FALSE)}
TemplateIds == 0..MaxTemplates
TemplateAmounts == {10, 30, 50}
\* a config naming a Payer; a template without multi_party_enabled ignores it
ParticipantConfigs ==
    {Some(<<[account |-> "bob", role |-> "Payer", amount |-> 10]>>)}

CreateTemplate ==
    \E creator \in Signers, template_type \in TemplateTypes,
       params \in TemplateParamInputs :
        /\ nextTemplateId < MaxTemplates
        /\ Extrinsic("create_template", creator, <<template_type>>,
                     create_template(Storage, creator, template_type, params), FALSE)

CreateEscrowFromTemplate ==
    \E user \in {"alice"}, task_id \in Tasks, amount \in TemplateAmounts,
       template_id \in TemplateIds, participant_configs \in ParticipantConfigs :
        LET config == TemplateEscrowConfig(template_id, None, participant_configs) IN
        Extrinsic("create_escrow_from_template", user, <<task_id, amount, template_id>>,
                  create_escrow_from_template(Storage, user, task_id, amount, config),
                  TRUE)

DeactivateTemplate ==
    \E caller \in Signers, template_id \in TemplateIds :
        Extrinsic("deactivate_template", caller, <<template_id>>,
                  deactivate_template(Storage, caller, template_id), FALSE)

NextTemplate == CreateTemplate \/ CreateEscrowFromTemplate \/ DeactivateTemplate

SpecTemplate == Init /\ [][NextTemplate]_vars

(***************************************************************************)
(* SpecGraduated: Graduated refund policies, valid and invalid, set on     *)
(* escrows of the mock runtime's accounts and evaluated every 25 blocks    *)
(* up to block 200; failed set_refund_policy calls are recorded in last.   *)
(***************************************************************************)
InitGraduated ==
    /\ now = 0
    /\ free = [a \in Accounts |-> IF a \in Signers THEN GenesisBalance ELSE 0]
    /\ reserved = [a \in Accounts |-> 0]
    /\ escrows = << >>
    /\ policies = << >>
    /\ userEscrows = [a \in Accounts |-> <<>>]
    /\ agentEscrows = [d \in Dids |-> <<>>]
    /\ participantEscrows = [a \in Accounts |-> <<>>]
    /\ batchCounters = <<0, 0>>
    /\ batchInProgress = {}
    /\ didDocuments = << >>
    /\ accountToDid = << >>
    /\ agentCards = << >>
    /\ capabilityIndex = << >>
    /\ auctions = << >>
    /\ nextAuctionId = 0
    /\ agentAuctionIndex = << >>
    /\ reputationStakes = << >>
    /\ escrowTemplates = << >>
    /\ nextTemplateId = 0
    /\ templatesByCreator = << >>
    /\ events = <<>>
    /\ bids = <<>>
    /\ vcg_result = None
    /\ paidOut = [t \in Tasks |-> 0]
    /\ before = [free |-> free, reserved |-> reserved]
    /\ last = [call |-> "genesis", caller |-> NoAccount, args |-> <<>>, ok |-> TRUE,
               err |-> ""]

\* the stages of test_graduated_refund
TestStages == <<<<50, 80>>, <<100, 60>>, <<150, 40>>>>

GraduatedStages ==
    {TestStages,
     <<<<75, 10>>, <<125, 90>>>>,
     <<<<100, 60>>, <<50, 80>>>>,
     <<<<50, 80>>, <<50, 60>>>>,
     <<<<50, 80>>, <<100, 101>>>>,
     <<>>}

GraduatedAmounts == {1000, 333}

\* System::set_block_number: BlockStride blocks pass without an extrinsic
AdvanceBlocks ==
    /\ now < BlockStride * LastStride
    /\ now' = now + BlockStride
    /\ events' = <<>>
    /\ before' = [free |-> free, reserved |-> reserved]
    /\ last' = [call |-> "on_initialize", caller |-> NoAccount, args |-> <<>>,
                ok |-> TRUE, err |-> ""]
    /\ UNCHANGED <<free, reserved, escrows, policies, userEscrows, agentEscrows,
                   participantEscrows, batchCounters, batchInProgress,
                   didDocuments, accountToDid, agentCards, capabilityIndex,
                   auctions, nextAuctionId, agentAuctionIndex, reputationStakes,
                   escrowTemplates, nextTemplateId, templatesByCreator,
                   bids, vcg_result, paidOut>>

SetGraduatedPolicy ==
    \E who \in {"alice"}, task_id \in {"t1"}, stages \in GraduatedStages :
        LET policy == Policy(Graduated(stages), FALSE, NoAccount) IN
        Extrinsic("set_refund_policy", who, <<task_id, stages>>,
                  set_refund_policy(Storage, who, task_id, policy), TRUE)

EvaluateRefundAmount ==
    \E who \in {"alice"}, task_id \in Tasks :
        Extrinsic("evaluate_refund_amount", who, <<task_id>>,
                  evaluate_refund_amount(Storage, who, task_id), FALSE)

NextGraduated ==
    \/ AdvanceBlocks
    \/ CreateEscrow({"alice"}, GraduatedAmounts, {None})
    \/ SetGraduatedPolicy
    \/ EvaluateRefundAmount

SpecGraduated == InitGraduated /\ [][NextGraduated]_vars

(***************************************************************************)
(* SpecApproval: milestones small enough for the user's free balance to    *)
(* cover more than one payment, approved by the user and by a participant. *)
(***************************************************************************)
ApprovalAmounts == {10}

NextApproval ==
    \/ CreateDid({"bob"})
    \/ CreateEscrow({"alice"}, Amounts, {None})
    \/ AcceptTask({"bob"})
    \/ AddParticipant({"Payee"}, ApprovalAmounts)
    \/ AddMilestone(ApprovalAmounts, {1, 2})
    \/ CompleteMilestone
    \/ ApproveMilestone

SpecApproval == Init /\ [][NextApproval]_vars

(***************************************************************************)
(* SpecRegistry: the registry pallet called by the controller of a DID and *)
(* by another account, over two blocks.                                    *)
(***************************************************************************)
RegistrySigners == {"ann", "ben"}
RegistryDids == {Encode(who) : who \in RegistrySigners}

RegisterAgentAs(signers, dids, capability_lists) ==
    \E who \in signers, did \in dids, capabilities \in capability_lists :
        Extrinsic("register_agent", who, <<did>>,
                  register_agent(Storage, who, did, "agent", capabilities, "wasm", 100),
                  FALSE)

UpdateAgentAs(signers, dids, capability_lists) ==
    \E who \in signers, did \in dids, capabilities \in capability_lists :
        Extrinsic("update_agent", who, <<did>>,
                  update_agent(Storage, who, did, Some(capabilities), None), FALSE)

DeregisterAgentAs(signers, dids) ==
    \E who \in signers, did \in dids :
        Extrinsic("deregister_agent", who, <<did>>,
                  deregister_agent(Storage, who, did), FALSE)

NextRegistry ==
    \/ AdvanceBlock
    \/ CreateAgentDid(RegistrySigners)
    \/ RegisterAgentAs(RegistrySigners, RegistryDids, CapabilityLists)
    \/ UpdateAgentAs(RegistrySigners, RegistryDids, CapabilityLists)
    \/ DeregisterAgentAs(RegistrySigners, RegistryDids)

SpecRegistry == Init /\ [][NextRegistry]_vars

(***************************************************************************)
(* SpecTimeout: escrows created directly and from templates, with and      *)
(* without a timeout of their own, at block 0 and at block 1.              *)
(***************************************************************************)
TemplateTimeouts == {None, Some(1), Some(2)}

CreateTemplateWithTimeout ==
    \E default_timeout \in TemplateTimeouts :
        /\ nextTemplateId < MaxTemplates
        /\ Extrinsic("create_template", "alice", <<"Custom">>,
                     create_template(Storage, "alice", "Custom",
                                     TemplateParams(default_timeout, None, None, FALSE)),
                     FALSE)

CreateEscrowFromTemplateWithTimeout ==
    \E task_id \in Tasks, amount \in Amounts, template_id \in TemplateIds,
       timeout_override \in TemplateTimeouts :
        LET config == TemplateEscrowConfig(template_id, timeout_override, None) IN
        Extrinsic("create_escrow_from_template", "alice",
                  <<task_id, amount, template_id, timeout_override>>,
                  create_escrow_from_template(Storage, "alice", task_id, amount, config),
                  FALSE)

NextTimeout ==
    \/ AdvanceBlock
    \/ CreateTemplateWithTimeout
    \/ CreateEscrowFromTemplateWithTimeout
    \/ CreateEscrow({"alice"}, Amounts, TemplateTimeouts)
    \/ RefundEscrow

SpecTimeout == Init /\ [][NextTimeout]_vars

(***************************************************************************)
(* SpecLifecycle: up to MaxAuctionIds auctions, one bidder, and every      *)
(* signer finalizing and cancelling.                                       *)
(***************************************************************************)
CreateAuctionUpTo(max_auctions) ==
    \E who \in {"ann", "ben"} :
        /\ nextAuctionId < max_auctions
        /\ Extrinsic("create_auction", who, <<nextAuctionId>>,
                     create_auction(Storage, who, "task", <<"math">>, Some(1)), FALSE)

NextLifecycle ==
    \/ AdvanceBlock
    \/ CreateAgentDid({"ann"})
    \/ RegisterAgent({"ann"}, RequiredCapabilities)
    \/ CreateAuctionUpTo(MaxAuctionIds)
    \/ PlaceBid({"ann"}, {100}, FALSE)
    \/ FinalizeAuction({"ann", "ben"}, FALSE)
    \/ CancelAuction({"ann", "ben"})

SpecLifecycle == Init /\ [][NextLifecycle]_vars

(***************************************************************************)
(* Vocabulary of the properties.                                           *)
(***************************************************************************)
Terminal == {"Completed", "Refunded", "Disputed"}
Open == {"Pending", "Accepted"}

RECURSIVE AmountSum(_)
\* the sum of the amounts of the escrows of the task set S
AmountSum(S) ==
    IF S = {} THEN 0
    ELSE LET t == CHOOSE x \in S : TRUE IN escrows[t].amount + AmountSum(S \ {t})

Total(a) == free[a] + reserved[a]
TotalBefore(a) == before.free[a] + before.reserved[a]

\* C1: once an escrow is Completed, Refunded or Disputed, no step changes its
\* state again.
C1_TerminalStateIsFinal ==
    [][\A t \in DOMAIN escrows :
          escrows[t].state \in Terminal =>
              /\ t \in DOMAIN escrows'
              /\ escrows'[t].state = escrows[t].state]_vars

\* C2: the reserved balance of every account covers the amounts of all its
\* Pending and Accepted escrows.
C2_ReservationCoversOpenEscrows ==
    \A a \in Accounts :
        reserved[a] >= AmountSum({t \in DOMAIN escrows :
                                     /\ escrows[t].user = a
                                     /\ escrows[t].state \in Open})

\* C3: a step that moves escrows of an account into Completed, Refunded or
\* Disputed lowers the account's reserved balance by exactly their amounts.
C3_ClosingReleasesReservation ==
    [][\A a \in Accounts :
          LET closing == {t \in DOMAIN escrows :
                             /\ escrows[t].user = a
                             /\ escrows[t].state \in Open
                             /\ escrows'[t].state \in Terminal}
          IN closing # {} => reserved'[a] = reserved[a] - AmountSum(closing)]_vars

\* C5: a successful release_payment on an escrow of amount A and fee percent p
\* was called by the escrow's user, leaves the escrow Completed, lowers the
\* user's reserved balance by A, pays floor(A*p/100) to the protocol fee
\* account and A - floor(A*p/100) to the agent account.
C5_ReleasePaymentIsExact ==
    (last.call = "release_payment" /\ last.ok) =>
        LET e == escrows[last.args[1]]
            fee == (e.amount * e.fee_percent) \div 100
        IN
        /\ last.caller = e.user
        /\ e.state = "Completed"
        /\ reserved[e.user] = before.reserved[e.user] - e.amount
        /\ free[ProtocolFeeAccount] = before.free[ProtocolFeeAccount] + fee
        /\ e.agent_account # e.user =>
              /\ free[e.agent_account] = before.free[e.agent_account] + (e.amount - fee)
              /\ Total(e.user) = TotalBefore(e.user) - e.amount

\* the part of C5 that holds: the same, for a release whose user still held
\* the escrow's reservation when release_payment was called
C5_ReleaseWithReservationIntact ==
    (last.call = "release_payment" /\ last.ok
        /\ before.reserved[escrows[last.args[1]].user] >= escrows[last.args[1]].amount)
    => C5_ReleasePaymentIsExact

\* C4: what has left the user's balance on account of an escrow (milestone
\* payments and their fees, the release and its fee, forfeited refund
\* portions) never exceeds the escrow's amount.
C4_PaidOutWithinAmount ==
    \A t \in DOMAIN escrows : paidOut[t] <= escrows[t].amount

RECURSIVE ForfeitSum(_)
\* the parts of the amounts of the escrows of S that their policies withhold
ForfeitSum(S) ==
    IF S = {} THEN 0
    ELSE LET t == CHOOSE x \in S : TRUE
         IN (escrows[t].amount - PolicyRefund(Storage, t, escrows[t].amount).v)
                + ForfeitSum(S \ {t})

Range(seq) == {seq[i] : i \in 1..Len(seq)}

\* C6: a refund executed under the escrow's policy, which grants R of the
\* amount A, leaves the user's total balance lower by exactly A - R and the
\* protocol fee account higher by exactly A - R, with no reservation left,
\* for every R from 0 to A.
C6_RefundForfeitsExactly ==
    (last.call = "batch_refund_escrow" /\ last.ok) =>
        \A a \in Accounts :
            LET refunded == {t \in Range(last.args) : escrows[t].user = a} IN
            refunded # {} =>
                /\ Total(a) = TotalBefore(a) - ForfeitSum(refunded)
                /\ free[ProtocolFeeAccount] =
                       before.free[ProtocolFeeAccount] + ForfeitSum(Range(last.args))
                /\ reserved[a] = before.reserved[a] - AmountSum(refunded)

\* the part of C6 that holds: the same, when every policy grants more than 0
C6_RefundWithPositiveRefund ==
    (last.call = "batch_refund_escrow" /\ last.ok
        /\ \A t \in Range(last.args) : PolicyRefund(Storage, t, escrows[t].amount).v > 0)
    => C6_RefundForfeitsExactly

\* C7: refund_escrow on a Pending escrow of amount A under a CancellationFee
\* policy of fee F <= A takes exactly F from the caller's total balance and
\* adds exactly F to the protocol fee account.
C7_CancellationFeeCharged ==
    [][\A t \in DOMAIN escrows :
          (/\ escrows[t].state = "Pending"
           /\ t \in DOMAIN policies
           /\ policies[t].policy_type.tag = "CancellationFee"
           /\ policies[t].policy_type.fee_amount <= escrows[t].amount
           /\ last'.call = "refund_escrow"
           /\ last'.args = <<t>>
           /\ escrows'[t].state = "Refunded")
          => /\ free'[escrows[t].user] + reserved'[escrows[t].user]
                    = Total(escrows[t].user) - policies[t].policy_type.fee_amount
             /\ free'[ProtocolFeeAccount]
                    = free[ProtocolFeeAccount] + policies[t].policy_type.fee_amount]_vars

HasFullRefundPolicy(t) ==
    t \in DOMAIN policies => policies[t].policy_type.tag = "Standard"

\* C8: create_escrow directly followed by refund_escrow of the same escrow by
\* the same user, and batch_create_escrow of N distinct escrows directly
\* followed by batch_refund_escrow of the same N, under no policy or the
\* Standard policy, return every free and reserved balance to its value
\* before the creation.
C8_CreateRefundRoundTrip ==
    [][(/\ \/ /\ last.call = "create_escrow"
              /\ last'.call = "refund_escrow"
              /\ last'.args = last.args
           \/ /\ last.call = "batch_create_escrow"
              /\ last'.call = "batch_refund_escrow"
              /\ Range(last'.args) = Range(last.args)
              /\ Cardinality(Range(last.args)) = Len(last.args)
        /\ last.ok
        /\ last'.ok
        /\ last'.caller = last.caller
        /\ \A t \in Range(last.args) : HasFullRefundPolicy(t))
       => (free' = before.free /\ reserved' = before.reserved)]_vars

\* a batch of two escrows was created and then refunded, nothing else was done
C8_Witness ==
    /\ last.call = "batch_refund_escrow"
    /\ last.ok
    /\ Len(last.args) = 2
    /\ batchCounters = <<1, 2>>
    /\ DOMAIN escrows = Range(last.args)
    /\ \A t \in DOMAIN escrows : escrows[t].state = "Refunded" /\ HasFullRefundPolicy(t)
    /\ before.reserved[last.caller] = AmountSum(Range(last.args))
    /\ free[last.caller] = InitialBalance
    /\ reserved[last.caller] = 0

BatchCalls ==
    {"batch_create_escrow", "batch_release_payment", "batch_refund_escrow",
     "batch_dispute_escrow"}

PerItemEvents == {"EscrowCreated", "PaymentReleased", "EscrowRefunded", "DisputeRaised"}

WithAmount(bid_list, i, amount) == [bid_list EXCEPT ![i].amount = amount]

\* whatever the winning bidder had bid instead, as long as it still wins,
\* run_vcg_auction computes the payment it computed for bid_list
PaymentIgnoresWinningBid(bid_list) ==
    LET result == run_vcg_auction(bid_list)
        winning == LowestBid(bid_list, 1, 1)
    IN \A amount \in BidAmounts :
           LET other == run_vcg_auction(WithAmount(bid_list, winning, amount)) IN
           other.winner_did = result.winner_did =>
               other.payment_amount = result.payment_amount

Finalized(id) == id \in DOMAIN auctions /\ auctions[id].status = "Finalized"

\* the position in the bid list of auction id of the bid of its winner
WinnerIndex(id) ==
    CHOOSE i \in 1..Len(auctions[id].bids) :
        auctions[id].bids[i].agent_did = auctions[id].winner.v

\* the amounts of a bid list, as a bag
AmountBag(bid_list) ==
    [a \in {bid_list[i].amount : i \in 1..Len(bid_list)} |->
        Cardinality({i \in 1..Len(bid_list) : bid_list[i].amount = a})]

RECURSIVE SumOfAmounts(_, _)
SumOfAmounts(bid_list, I) ==
    IF I = {} THEN 0
    ELSE LET i == CHOOSE x \in I : TRUE
         IN bid_list[i].amount + SumOfAmounts(bid_list, I \ {i})

Qualified(who, id) ==
    LET did == Encode(who) IN
    /\ did \in DOMAIN agentCards
    /\ agentCards[did].active
    /\ \A i \in 1..Len(auctions[id].required_capabilities) :
           \E j \in 1..Len(agentCards[did].capabilities) :
               agentCards[did].capabilities[j] = auctions[id].required_capabilities[i]

\* the bid list of auction id grows in this step by one bid of who's DID
BidAdded(who, id) ==
    /\ id \in DOMAIN auctions
    /\ Len(auctions'[id].bids) = Len(auctions[id].bids) + 1
    /\ SubSeq(auctions'[id].bids, 1, Len(auctions[id].bids)) = auctions[id].bids
    /\ auctions'[id].bids[Len(auctions'[id].bids)].agent_did = Encode(who)

\* place_bid of a bidder that is not qualified fails and adds no bid
UnqualifiedBidFails ==
    \A who \in AuctionSigners, id \in DOMAIN auctions, amount \in AuctionBidAmounts :
        ~Qualified(who, id) =>
            LET r == place_bid(Storage, who, id, amount) IN
            /\ ~r.ok
            /\ r.err \in {"AgentNotRegistered", "AgentLacksCapabilities",
                           "AuctionNotOpen", "AuctionEnded"}
            /\ r.s.auctions = auctions

\* every change of a bid list adds one bid, placed by an account whose DID
\* was qualified in the state the bid was placed in
BidsComeFromQualifiedBidders ==
    \A id \in DOMAIN auctions' :
        IF id \notin DOMAIN auctions THEN auctions'[id].bids = <<>>
        ELSE auctions'[id].bids # auctions[id].bids =>
                 \E who \in AuctionSigners :
                     /\ last'.call = "place_bid" /\ last'.caller = who
                     /\ BidAdded(who, id)
                     /\ Qualified(who, id)

\* C13: every bid stored in an auction was placed by a DID that had, when
\* it bid, an active AgentCard with every required capability; place_bid of
\* an unregistered, deregistered or under-qualified bidder fails and adds
\* no bid.
C13_BidsAreCapabilityGated ==
    [][BidsComeFromQualifiedBidders /\ UnqualifiedBidFails']_vars

\* an open auction holds the bid of a bidder that has since been
\* deregistered, next to a registered bidder without the capability
C13_Witness ==
    \E id \in DOMAIN auctions :
        /\ auctions[id].status = "Open" /\ now < auctions[id].ends_at
        /\ AlreadyBid(auctions[id].bids, Encode("cat"))
        /\ ~agentCards[Encode("cat")].active
        /\ Encode("ben") \in DOMAIN agentCards
        /\ \E who \in AuctionSigners :
               /\ Encode(who) \notin DOMAIN agentCards
               /\ ~place_bid(Storage, who, id, 100).ok

\* place_bid and finalize_auction against the end of the auction
BiddingWindow ==
    \A id \in DOMAIN auctions, who \in AuctionSigners, amount \in AuctionBidAmounts :
        /\ now >= auctions[id].ends_at => ~place_bid(Storage, who, id, amount).ok
        /\ now < auctions[id].ends_at => ~finalize_auction(Storage, who, id).ok
        /\ (/\ now = auctions[id].ends_at - 1
            /\ auctions[id].status = "Open"
            /\ Qualified(who, id)
            /\ ~AlreadyBid(auctions[id].bids, Encode(who)))
               => place_bid(Storage, who, id, amount).ok

\* bids arrive before the end, finalization at or after it, and a
\* finalized auction never changes
FinalizedBidsAreFixed ==
    \A id \in DOMAIN auctions :
        /\ auctions'[id].bids # auctions[id].bids => now < auctions[id].ends_at
        /\ (auctions[id].status # "Finalized" /\ auctions'[id].status = "Finalized")
               => /\ now >= auctions[id].ends_at
                  /\ auctions'[id].bids = auctions[id].bids
        /\ auctions[id].status = "Finalized" => auctions'[id] = auctions[id]

\* C14: place_bid succeeds at block ends_at - 1 and fails from block ends_at
\* on, finalize_auction fails before block ends_at, and the bid list that
\* finalize_auction evaluated never grows afterwards.
C14_BidsCloseBeforeFinalization ==
    [][BiddingWindow /\ BiddingWindow' /\ FinalizedBidsAreFixed]_vars

\* an auction was finalized at its end block over bids placed the block
\* before, while a qualified account that has not bid is turned away
C14_Witness ==
    \E id \in DOMAIN auctions :
        /\ Finalized(id)
        /\ last.call = "finalize_auction"
        /\ now = auctions[id].ends_at
        /\ \A i \in 1..Len(auctions[id].bids) :
               auctions[id].bids[i].placed_at = auctions[id].ends_at - 1
        /\ \E who \in AuctionSigners :
               /\ Qualified(who, id)
               /\ ~AlreadyBid(auctions[id].bids, Encode(who))

(***************************************************************************)
(* Reputation claims (SpecReputation, SpecGrowth, SpecStake).              *)
(***************************************************************************)
\* this step is a successful call of the named dispatchable
Dispatched(call) == last'.call = call /\ last'.ok

\* this step is a report_outcome for agent with the given outcome
Reported(agent, success) ==
    /\ Dispatched("report_outcome")
    /\ last'.args = <<agent, success>>
    /\ agent \in DOMAIN reputationStakes

\* C15: the first bond_reputation of an account sets its reputation to 500,
\* and every later one leaves its reputation as it was, whatever its value.
C15_LaterBondKeepsReputation ==
    [][\A who \in Signers :
          (Dispatched("bond_reputation") /\ last'.caller = who) =>
              IF who \in DOMAIN reputationStakes
              THEN reputationStakes'[who].reputation = reputationStakes[who].reputation
              ELSE reputationStakes'[who].reputation = StartingReputation]_vars

\* C15 for the scores above 0: a later bond leaves a positive reputation
\* as it was.
C15_LaterBondKeepsPositiveReputation ==
    [][\A who \in Signers :
          (/\ Dispatched("bond_reputation") /\ last'.caller = who
           /\ who \in DOMAIN reputationStakes
           /\ reputationStakes[who].reputation > 0) =>
              reputationStakes'[who].reputation = reputationStakes[who].reputation]_vars

\* C16: every reputation lies in 0..MaxReputationScore; a reported success
\* adds max(0, 10 - reputation / 100), capped at the maximum, and never
\* lowers the reputation; a reported failure never raises it.
C16_ReputationBoundedAndMonotone ==
    [][/\ \A a \in DOMAIN reputationStakes' :
              reputationStakes'[a].reputation \in 0..MaxReputationScore
       /\ \A a \in Signers :
              Reported(a, TRUE) =>
                  LET old == reputationStakes[a].reputation
                      quotient == old \div 100
                      gain == IF quotient < 10 THEN 10 - quotient ELSE 0
                      new == reputationStakes'[a].reputation
                  IN /\ new = (IF old + gain > MaxReputationScore
                               THEN MaxReputationScore ELSE old + gain)
                     /\ new >= old
       /\ \A a \in Signers :
              Reported(a, FALSE) =>
                  reputationStakes'[a].reputation <= reputationStakes[a].reputation
      ]_vars

\* the agent is at the maximum: its last success gained nothing, after an
\* earlier failure
C16_Witness ==
    /\ last.call = "report_outcome" /\ last.args = <<"alice", TRUE>>
    /\ reputationStakes["alice"].reputation = MaxReputationScore
    /\ reputationStakes["alice"].tasks_failed = 1
    /\ reputationStakes["alice"].tasks_completed = MaxSuccesses

\* C17: the staked amount of every account is at most its reserved balance.
C17_StakeIsReserved ==
    \A a \in DOMAIN reputationStakes : reputationStakes[a].staked <= reserved[a]

\* what a reported failure of agent does to its stake and to the balances
FailureSlashes(agent) ==
    LET old == reputationStakes[agent]
        new == reputationStakes'[agent]
        slash == old.staked \div 100
    IN /\ new.reputation = (IF old.reputation > ReputationLoss
                           THEN old.reputation - ReputationLoss ELSE 0)
       /\ new.staked = old.staked - slash
       /\ new.slashed = old.slashed + slash
       /\ new.staked + new.slashed = old.staked + old.slashed
       /\ free'[TreasuryAccount] = free[TreasuryAccount] + slash
       /\ reserved'[agent] = reserved[agent] - slash
       /\ (old.reputation = 460 /\ old.tasks_failed = 2 /\ old.tasks_completed = 0)
              => (new.reputation = 440 /\ new.tasks_failed = 3)

\* C18: a reported failure lowers the reputation by 20, floored at 0, moves
\* staked / 100 from staked to slashed, credits that amount to the treasury
\* and takes it from the agent's reserved balance; the third failure after
\* a first bond leaves reputation 440; staked + slashed does not change.
C18_FailureSlashesOnePercent ==
    [][\A a \in Signers : Reported(a, FALSE) => FailureSlashes(a)]_vars

\* C18 where the stake is still reserved: the same, for failures reported
\* while the agent's reserved balance covers its stake.
C18_FailureSlashesReservedStake ==
    [][\A a \in Signers :
          (Reported(a, FALSE) /\ reputationStakes[a].staked <= reserved[a])
              => FailureSlashes(a)]_vars

(***************************************************************************)
(* DID claims (SpecDid).                                                   *)
(***************************************************************************)
\* this step is a call of update_key or revoke_did on the stored DID did
CalledOnDid(did) ==
    /\ last'.call \in {"update_key", "revoke_did"}
    /\ last'.args = <<did>>
    /\ did \in DOMAIN didDocuments

\* C19: the controller of a DID document never changes after create_did,
\* and update_key or revoke_did by an account other than the controller
\* fails with NotDidController and leaves the document unchanged.
C19_OnlyControllerMutates ==
    [][\A did \in DOMAIN didDocuments :
          /\ did \in DOMAIN didDocuments'
          /\ didDocuments'[did].controller = didDocuments[did].controller
          /\ (CalledOnDid(did) /\ last'.caller # didDocuments[did].controller) =>
                 /\ ~last'.ok
                 /\ last'.err = "NotDidController"
                 /\ didDocuments'[did] = didDocuments[did]]_vars

\* another account's update_key on alice's DID has just failed
C19_Witness ==
    /\ AgentDid \in DOMAIN didDocuments
    /\ didDocuments[AgentDid].controller = "alice"
    /\ last.call = "update_key" /\ last.caller = "bob" /\ last.args = <<AgentDid>>
    /\ ~last.ok /\ last.err = "NotDidController"

\* C20: update_key and revoke_did on a revoked DID both fail and leave the
\* document, updated_at included, unchanged.
C20_RevokedDidIsFrozen ==
    [][\A did \in DOMAIN didDocuments :
          (CalledOnDid(did) /\ ~didDocuments[did].active) =>
              /\ ~last'.ok
              /\ didDocuments'[did] = didDocuments[did]]_vars

\* C20 for update_key alone: update_key on a revoked DID fails and leaves
\* the document unchanged.
C20_UpdateKeyRequiresActive ==
    [][\A did \in DOMAIN didDocuments :
          (CalledOnDid(did) /\ last'.call = "update_key" /\ ~didDocuments[did].active) =>
              /\ ~last'.ok
              /\ last'.err \in {"NotDidController", "DidInactive"}
              /\ didDocuments'[did] = didDocuments[did]]_vars

\* C21: once a DID has been revoked, is_did_active is false and
\* resolve_public_key returns no key for it in every later state; no
\* dispatch, create_did with the same identifier included, reactivates it.
C21_RevocationIsOneWay ==
    [][\A did \in DOMAIN didDocuments :
          ~didDocuments[did].active =>
              /\ did \in DOMAIN didDocuments'
              /\ ~didDocuments'[did].active
              /\ ~is_did_active(Storage', did)
              /\ resolve_public_key(Storage', did) = None]_vars

\* create_did with the identifier of a revoked DID has just failed
C21_Witness ==
    /\ AgentDid \in DOMAIN didDocuments
    /\ ~didDocuments[AgentDid].active
    /\ ~is_did_active(Storage, AgentDid)
    /\ last.call = "create_did" /\ last.args = <<AgentDid>>
    /\ ~last.ok /\ last.err = "DidAlreadyExists"

(***************************************************************************)
(* Registry claims (SpecAuction).                                          *)
(***************************************************************************)
SeqRange(list) == {list[i] : i \in 1..Len(list)}

\* the capability index lists did under every capability of its card
Indexed(s, did) ==
    \A c \in SeqRange(s.agentCards[did].capabilities) :
        did \in SeqRange(find_agents_by_capability(s, c))

\* C22: for every active AgentCard and every capability it lists, the
\* agent's DID is in CapabilityIndex under that capability.
C22_IndexCoversActiveCards ==
    \A did \in DOMAIN agentCards :
        agentCards[did].active => Indexed(Storage, did)

\* C22 for registration alone: a successful register_agent leaves the new
\* card's DID indexed under every capability of the card.
C22_RegistrationIsIndexed ==
    [][\A did \in DOMAIN agentCards' :
          (last'.call = "register_agent" /\ last'.args = <<did>>)
              => Indexed(Storage', did)]_vars

(***************************************************************************)
(* Acceptance claims (SpecAccept).                                         *)
(***************************************************************************)
\* C23: every escrow whose agent_did is set refers to a DID that is active.
C23_AgentDidIsActive ==
    \A task_id \in DOMAIN escrows :
        escrows[task_id].agent_did # NoAccount =>
            is_did_active(Storage, escrows[task_id].agent_did)

\* C23 at acceptance: the DID an escrow is accepted with is active in the
\* state the acceptance leaves.
C23_AgentDidIsActiveWhenAccepted ==
    [][\A task_id \in DOMAIN escrows :
          (last'.call = "accept_task" /\ last'.ok /\ last'.args = <<task_id>>)
              => is_did_active(Storage', escrows'[task_id].agent_did)]_vars

\* C24: accept_task succeeds only on a Pending escrow, strictly before
\* expires_at, with an active DID, and then leaves the escrow Accepted with
\* agent_did and agent_account set; on a Pending escrow at a block
\* >= expires_at it fails with EscrowExpired and the escrow stays Pending
\* with no agent.
C24_AcceptOnlyBeforeExpiry ==
    [][\A task_id \in DOMAIN escrows :
          (last'.call = "accept_task" /\ last'.args = <<task_id>>) =>
              LET old == escrows[task_id]
                  new == escrows'[task_id]
              IN /\ last'.ok =>
                        /\ old.state = "Pending"
                        /\ now < old.expires_at
                        /\ new.agent_did \in Dids
                        /\ is_did_active(Storage, new.agent_did)
                        /\ new.state = "Accepted"
                        /\ new.agent_account = last'.caller
                 /\ (old.state = "Pending" /\ now >= old.expires_at) =>
                        /\ ~last'.ok
                        /\ last'.err = "EscrowExpired"
                        /\ new = old
                        /\ new.state = "Pending"
                        /\ new.agent_did = NoAccount
                        /\ new.agent_account = NoAccount]_vars

\* an accept_task on an expired Pending escrow has just failed while the
\* DID is active
C24_Witness ==
    /\ last.call = "accept_task" /\ last.args = <<"t1">>
    /\ ~last.ok /\ last.err = "EscrowExpired"
    /\ "t1" \in DOMAIN escrows
    /\ escrows["t1"].state = "Pending"
    /\ now >= escrows["t1"].expires_at
    /\ is_did_active(Storage, AgentDid)

(***************************************************************************)
(* Refund timing (SpecRefund).                                             *)
(***************************************************************************)
\* the outcome of refund_escrow by caller in the current state
RefundOutcome(caller, task_id) ==
    with_storage_layer(Storage, refund_escrow(Storage, caller, task_id))

\* the outcome of batch_refund_escrow by caller in the current state
BatchRefundOutcome(caller, task_ids) ==
    with_storage_layer(Storage, batch_refund_escrow(Storage, caller, task_ids))

\* C25: on an Accepted escrow before expires_at, refund_escrow and
\* batch_refund_escrow fail with EscrowNotExpired and change nothing; at
\* every block >= expires_at refund_escrow succeeds and leaves it Refunded;
\* on a Pending escrow refund_escrow succeeds at any block for its user and
\* fails with NotEscrowCreator for anyone else.
C25_RefundTiming ==
    \A task_id \in DOMAIN escrows, caller \in Signers :
        LET escrow == escrows[task_id]
            r == RefundOutcome(caller, task_id)
        IN /\ (escrow.state = "Accepted" /\ now < escrow.expires_at) =>
                  /\ ~r.ok /\ r.err = "EscrowNotExpired" /\ r.s = Storage
                  /\ BatchRefundOutcome(caller, <<task_id>>).err = "EscrowNotExpired"
                  /\ \A task_ids \in SeqsUpTo(Tasks, MaxBatchLen) :
                         task_id \in SeqRange(task_ids) =>
                             LET b == BatchRefundOutcome(caller, task_ids)
                             IN ~b.ok /\ b.s = Storage
           /\ (escrow.state = "Accepted" /\ now >= escrow.expires_at) =>
                  r.ok /\ r.s.escrows[task_id].state = "Refunded"
           /\ escrow.state = "Pending" =>
                  IF caller = escrow.user
                  THEN r.ok /\ r.s.escrows[task_id].state = "Refunded"
                  ELSE ~r.ok /\ r.err = "NotEscrowCreator" /\ r.s = Storage

\* an escrow accepted at block 0 has been refunded by refund_escrow at its
\* expiry, while another one is Accepted and not yet refundable
C25_Witness ==
    /\ last.call = "refund_escrow" /\ last.ok /\ last.args = <<"t1">>
    /\ escrows["t1"].state = "Refunded"
    /\ escrows["t1"].agent_did # NoAccount
    /\ now >= escrows["t1"].expires_at
    /\ "t2" \in DOMAIN escrows
    /\ escrows["t2"].state = "Accepted"
    /\ now < escrows["t2"].expires_at

(***************************************************************************)
(* Milestone payment (SpecMilestone).                                      *)
(***************************************************************************)
\* this step is a successful approve_milestone that adds an approval to
\* milestone i of escrow task_id
Approved(task_id, i) ==
    /\ Dispatched("approve_milestone")
    /\ last'.args = <<task_id>>
    /\ task_id \in DOMAIN escrows
    /\ i \in 1..Len(escrows[task_id].milestones)
    /\ Len(escrows'[task_id].milestones[i].approved_by)
           = Len(escrows[task_id].milestones[i].approved_by) + 1

\* C26: an approve_milestone that brings the approval count of a completed
\* milestone up to required_approvals pays amount - amount * fee_percent / 100
\* to the agent (475 of 500 at 5%) and the fee to the protocol fee account,
\* and the escrow stays Accepted; with fewer approvals nothing is paid.
C26_MilestonePaidOnLastApproval ==
    [][/\ 500 - calculate_fee(500, DefaultFeePercent) = 475
       /\ \A task_id \in Tasks, i \in 1..MaxMilestonesPerEscrow :
              Approved(task_id, i) =>
                  LET escrow == escrows[task_id]
                      milestone == escrows'[task_id].milestones[i]
                      count == Len(milestone.approved_by)
                      fee == (milestone.amount * escrow.fee_percent) \div 100
                      agent == escrow.agent_account
                  IN /\ milestone.completed
                     /\ escrows'[task_id].state = "Accepted"
                     /\ count = milestone.required_approvals =>
                            /\ free'[agent] = free[agent] + (milestone.amount - fee)
                            /\ free'[ProtocolFeeAccount] = free[ProtocolFeeAccount] + fee
                            /\ free'[escrow.user] = free[escrow.user] - milestone.amount
                     /\ count < milestone.required_approvals =>
                            free' = free /\ reserved' = reserved]_vars

\* the second of two required approvals has just paid the milestone
C26_Witness ==
    /\ last.call = "approve_milestone" /\ last.ok /\ last.args = <<"t1">>
    /\ escrows["t1"].state = "Accepted"
    /\ Len(escrows["t1"].milestones) = 1
    /\ escrows["t1"].milestones[1].required_approvals = 2
    /\ Len(escrows["t1"].milestones[1].approved_by) = 2
    /\ free["bob"] = before.free["bob"] + 19
    /\ free[ProtocolFeeAccount] = before.free[ProtocolFeeAccount] + 1

(***************************************************************************)
(* Refund policy authority (SpecOverride).                                 *)
(***************************************************************************)
\* caller is the override authority that the stored policy of task_id names
DesignatedAuthority(task_id, caller) ==
    /\ task_id \in DOMAIN policies
    /\ policies[task_id].can_override
    /\ policies[task_id].override_authority = caller

\* the outcome of override_refund_amount by caller in the current state
OverrideOutcome(caller, task_id, override_amount) ==
    with_storage_layer(Storage,
                       override_refund_amount(Storage, caller, task_id, override_amount))

\* this step is a successful override_refund_amount on task_id: the user
\* recovers some amount up to the escrow's, the fee account gets the rest,
\* and the escrow is Refunded
OverrideSettles(task_id) ==
    LET escrow == escrows[task_id] IN
    /\ escrows'[task_id].state = "Refunded"
    /\ \E a \in 0..escrow.amount :
           /\ free'[escrow.user] = free[escrow.user] + a
           /\ reserved'[escrow.user] = reserved[escrow.user] - escrow.amount
           /\ free'[ProtocolFeeAccount] = free[ProtocolFeeAccount] + (escrow.amount - a)

\* a call by anyone but the designated authority, or with more than the
\* escrow's amount, fails and changes nothing
OverrideRefused ==
    \A task_id \in DOMAIN escrows, caller \in Signers, a \in OverrideAmounts :
        (~DesignatedAuthority(task_id, caller) \/ a > escrows[task_id].amount) =>
            LET r == OverrideOutcome(caller, task_id, a)
            IN ~r.ok /\ r.s = Storage

\* C27: override_refund_amount succeeds only for the override authority
\* designated in a can_override policy and an amount <= escrow.amount; then
\* the user recovers the override amount, the fee account receives the rest
\* and the escrow is Refunded; any other call fails and changes nothing.
C27_OverrideByAuthorityOnly ==
    [][/\ OverrideRefused'
       /\ \A task_id \in DOMAIN escrows :
              (Dispatched("override_refund_amount") /\ last'.args = <<task_id>>) =>
                  /\ DesignatedAuthority(task_id, last'.caller)
                  /\ OverrideSettles(task_id)]_vars

\* C27 for a designated authority and an open escrow whose reservation is
\* in place: the override by the designated authority settles as stated,
\* and where an authority is designated every other caller is refused.
C27_OverrideOfOpenEscrow ==
    [][\A task_id \in DOMAIN escrows :
          /\ (/\ Dispatched("override_refund_amount") /\ last'.args = <<task_id>>
              /\ escrows[task_id].state \in {"Pending", "Accepted"}
              /\ reserved[escrows[task_id].user] >= escrows[task_id].amount)
                 => OverrideSettles(task_id)
          /\ \A caller \in Signers, a \in OverrideAmounts :
                 (/\ task_id \in DOMAIN policies
                  /\ policies[task_id].override_authority # NoAccount
                  /\ (~DesignatedAuthority(task_id, caller) \/ a > escrows[task_id].amount))
                     => ~OverrideOutcome(caller, task_id, a).ok]_vars

\* the account that is not the user has overridden the refund of an escrow
\* whose can_override policy names no authority
C27_NoAuthorityOverride ==
    /\ last.call = "override_refund_amount" /\ last.ok
    /\ last.caller = "bob" /\ last.args = <<"t1">>
    /\ policies["t1"].override_authority = NoAccount
    /\ free[ProtocolFeeAccount] = before.free[ProtocolFeeAccount] + 30

\* the outcome of update_refund_policy by caller in the current state
UpdatePolicyOutcome(caller, task_id, new_policy) ==
    with_storage_layer(Storage,
                       update_refund_policy(Storage, caller, task_id, new_policy))

\* the stored policy of task_id is written in this step
PolicyWritten(task_id) ==
    /\ task_id \in DOMAIN policies'
    /\ task_id \in DOMAIN policies => policies'[task_id] # policies[task_id]

\* update_refund_policy by caller on task_id is refused, the policy kept
UpdateRefused(task_id, caller) ==
    \A new_policy \in OverridePolicies :
        LET r == UpdatePolicyOutcome(caller, task_id, new_policy)
        IN ~r.ok /\ r.err = "NotAuthorizedToOverride" /\ r.s = Storage

\* C28: the refund policy of an escrow is written only by the escrow's user
\* or by the override authority designated in the stored can_override
\* policy; set_refund_policy requires caller = user and state Pending;
\* update_refund_policy by any other account fails with
\* NotAuthorizedToOverride and leaves the policy unchanged.
C28_PolicyWrittenByUserOrAuthority ==
    [][/\ \A task_id \in DOMAIN escrows' :
              /\ PolicyWritten(task_id) =>
                     \/ last'.caller = escrows'[task_id].user
                     \/ DesignatedAuthority(task_id, last'.caller)
              /\ (Dispatched("set_refund_policy") /\ last'.args = <<task_id>>) =>
                     /\ last'.caller = escrows[task_id].user
                     /\ escrows[task_id].state = "Pending"
       /\ \A task_id \in DOMAIN policies', caller \in Signers :
              (/\ caller # escrows'[task_id].user
               /\ ~DesignatedAuthority(task_id, caller)') => UpdateRefused(task_id, caller)'
      ]_vars

\* C28 where the stored policy names an authority or forbids overriding:
\* the same statement for those policies.
C28_PolicyWrittenUnderNamedAuthority ==
    [][/\ \A task_id \in DOMAIN escrows' :
              /\ (/\ PolicyWritten(task_id)
                  /\ task_id \in DOMAIN policies
                         => (policies[task_id].can_override
                                => policies[task_id].override_authority # NoAccount)) =>
                     \/ last'.caller = escrows'[task_id].user
                     \/ DesignatedAuthority(task_id, last'.caller)
              /\ (Dispatched("set_refund_policy") /\ last'.args = <<task_id>>) =>
                     /\ last'.caller = escrows[task_id].user
                     /\ escrows[task_id].state = "Pending"
       /\ \A task_id \in DOMAIN policies', caller \in Signers :
              (/\ caller # escrows'[task_id].user
               /\ ~DesignatedAuthority(task_id, caller)'
               /\ policies'[task_id].can_override
                      => policies'[task_id].override_authority # NoAccount)
                  => UpdateRefused(task_id, caller)'
      ]_vars

(***************************************************************************)
(* Payer reservations (SpecMilestone).                                     *)
(***************************************************************************)
\* the Payer participations of account in the escrows whose state is in states
PayerEntries(account, states) ==
    {<<task_id, i>> \in Tasks \X (1..MaxParticipants) :
        /\ task_id \in DOMAIN escrows
        /\ escrows[task_id].state \in states
        /\ i <= Len(escrows[task_id].participants)
        /\ escrows[task_id].participants[i].account = account
        /\ escrows[task_id].participants[i].role = "Payer"}

RECURSIVE PayerSum(_)
\* the amounts reserved by add_participant for the entries of S
PayerSum(S) ==
    IF S = {} THEN 0
    ELSE LET e == CHOOSE x \in S : TRUE
         IN escrows[e[1]].participants[e[2]].amount + PayerSum(S \ {e})

\* this step is a successful remove_participant that takes a Payer off
\* task_id: the payer gets the reserved amount back
RemovalRestores(task_id) ==
    \A i \in 1..Len(escrows[task_id].participants) :
        LET removed == escrows[task_id].participants[i] IN
        (/\ removed.role = "Payer"
         /\ \A j \in 1..Len(escrows'[task_id].participants) :
                escrows'[task_id].participants[j].account # removed.account) =>
            /\ escrows[task_id].state = "Pending"
            /\ free'[removed.account] = free[removed.account] + removed.amount
            /\ reserved'[removed.account] = reserved[removed.account] - removed.amount

\* an account that created no escrow has nothing reserved beyond its Payer
\* participations in the escrows that are still Pending or Accepted
PayerReservationsAreOpen ==
    \A account \in Signers :
        (\A task_id \in DOMAIN escrows : escrows[task_id].user # account) =>
            reserved[account] <= PayerSum(PayerEntries(account, {"Pending", "Accepted"}))

\* C29: the reservation add_participant takes from a Payer is returned by
\* remove_participant while the escrow is Pending, restoring the payer's
\* free and reserved balance, and once the escrow is in a terminal state
\* nothing of the payer's funds remains reserved on its account.
C29_PayerReservationBalanced ==
    [][/\ PayerReservationsAreOpen'
       /\ \A task_id \in DOMAIN escrows :
              (Dispatched("remove_participant") /\ last'.args = <<task_id>>)
                  => RemovalRestores(task_id)]_vars

\* C29 for remove_participant alone: removing a Payer from a Pending escrow
\* restores the payer's free and reserved balance.
C29_RemoveParticipantRestores ==
    [][\A task_id \in DOMAIN escrows :
          (Dispatched("remove_participant") /\ last'.args = <<task_id>>)
              => RemovalRestores(task_id)]_vars

(***************************************************************************)
(* Templates (SpecTemplate).                                               *)
(***************************************************************************)
FromTemplate == last'.call = "create_escrow_from_template"

\* the template a create_escrow_from_template step names is stored and active
TemplateUsable(template_id) ==
    /\ template_id \in DOMAIN escrowTemplates
    /\ escrowTemplates[template_id].is_active

\* amount lies in the range of the stored template, where a bound is set
WithinRange(template_id, amount) ==
    LET params == escrowTemplates[template_id].default_params IN
    /\ params.min_amount.some => amount >= params.min_amount.v
    /\ params.max_amount.some => amount <= params.max_amount.v

\* amount moved into the range of the stored template
Clamped(template_id, amount) ==
    LET params == escrowTemplates[template_id].default_params
        raised == IF params.min_amount.some /\ amount < params.min_amount.v
                  THEN params.min_amount.v ELSE amount
    IN IF params.max_amount.some /\ raised > params.max_amount.v
       THEN params.max_amount.v ELSE raised

ReservesNothing == UNCHANGED <<free, reserved, escrows, userEscrows, escrowTemplates>>

\* C30 as the code has it: create_escrow_from_template succeeds only from a
\* stored, active template and only with an amount inside the template's
\* [min_amount, max_amount] where these are set; it then stores the escrow
\* with exactly the requested amount, reserves exactly that amount from the
\* user and raises the template's usage_count by exactly one, leaving every
\* other template alone.  From an unknown or inactive template, or with an
\* amount outside the range, it fails and reserves nothing; for a fresh task
\* the error is TemplateNotFound, TemplateInactive, InsufficientBalance
\* (below min_amount) or AmountTooLarge (above max_amount).
C30_TemplateRangeIsEnforced ==
    [][FromTemplate =>
        LET user == last'.caller
            task_id == last'.args[1]
            amount == last'.args[2]
            template_id == last'.args[3]
            fresh == task_id \notin DOMAIN escrows
        IN
        /\ last'.ok =>
              /\ TemplateUsable(template_id)
              /\ WithinRange(template_id, amount)
              /\ fresh
              /\ escrows'[task_id].amount = amount
              /\ escrows'[task_id].user = user
              /\ escrows'[task_id].state = "Pending"
              /\ reserved'[user] = reserved[user] + amount
              /\ free'[user] = free[user] - amount
              /\ \A a \in Accounts \ {user} :
                    reserved'[a] = reserved[a] /\ free'[a] = free[a]
              /\ escrowTemplates'[template_id].usage_count =
                    escrowTemplates[template_id].usage_count + 1
              /\ escrowTemplates' =
                    [escrowTemplates EXCEPT ![template_id].usage_count = @ + 1]
        /\ template_id \notin DOMAIN escrowTemplates =>
              /\ ~last'.ok /\ ReservesNothing
              /\ fresh => last'.err = "TemplateNotFound"
        /\ (template_id \in DOMAIN escrowTemplates
               /\ ~escrowTemplates[template_id].is_active) =>
              /\ ~last'.ok /\ ReservesNothing
              /\ fresh => last'.err = "TemplateInactive"
        /\ (TemplateUsable(template_id) /\ ~WithinRange(template_id, amount)) =>
              /\ ~last'.ok /\ ReservesNothing
              /\ fresh => last'.err \in {"InsufficientBalance", "AmountTooLarge"}
        /\ ~last'.ok => ReservesNothing]_vars

\* an escrow of 30 was created from a template with the range 20..40, which
\* now counts one use
C30_Witness ==
    /\ last.call = "create_escrow_from_template"
    /\ last.ok
    /\ LET template == escrowTemplates[last.args[3]] IN
       /\ template.default_params.min_amount = Some(20)
       /\ template.default_params.max_amount = Some(40)
       /\ template.usage_count = 1
    /\ escrows[last.args[1]].amount = 30
    /\ reserved["alice"] = 30

\* C30 as stated: a creation from a stored, active template for a fresh task
\* by a user who can afford the clamped amount succeeds and stores and
\* reserves the requested amount clamped to [min_amount, max_amount].
C30_AmountIsClamped ==
    [][FromTemplate =>
        LET user == last'.caller
            task_id == last'.args[1]
            amount == last'.args[2]
            template_id == last'.args[3]
        IN
        (/\ TemplateUsable(template_id)
         /\ task_id \notin DOMAIN escrows
         /\ free[user] - Clamped(template_id, amount) >= ExistentialDeposit) =>
            /\ last'.ok
            /\ escrows'[task_id].amount = Clamped(template_id, amount)
            /\ reserved'[user] = reserved[user] + Clamped(template_id, amount)]_vars

(***************************************************************************)
(* Graduated refunds (SpecGraduated).                                      *)
(***************************************************************************)
\* the stages whose deadline has passed at block b
PassedStages(stages, b) == {i \in 1..Len(stages) : stages[i][1] < b}

\* the percentage of the last stage whose deadline has passed, 100 if none has
LastPassedPercentage(stages, b) ==
    LET passed == PassedStages(stages, b) IN
    IF passed = {} THEN 100
    ELSE stages[CHOOSE i \in passed : \A j \in passed : j <= i][2]

StrictlyAscending(stages) ==
    \A i \in 1..Len(stages) - 1 : stages[i][1] < stages[i + 1][1]

\* the refund_amount of the RefundAmountCalculated event just deposited
ReportedRefund == events[Len(events)].refund_amount

GraduatedEvaluated(task_id) ==
    /\ last.call = "evaluate_refund_amount"
    /\ last.ok
    /\ last.args[1] = task_id
    /\ task_id \in DOMAIN policies
    /\ policies[task_id].policy_type.tag = "Graduated"

C31_DescendingStagesRefused ==
    /\ last.call = "set_refund_policy"
    /\ ~last.ok
    /\ last.err = "GraduatedStagesInvalid"
    /\ last.args[2] = <<<<100, 60>>, <<50, 80>>>>

ApprovalsWellFormed ==
    \A task_id \in DOMAIN escrows :
        LET escrow == escrows[task_id] IN
        \A i \in 1..Len(escrow.milestones) :
            LET approved_by == escrow.milestones[i].approved_by IN
            /\ \A j, k \in 1..Len(approved_by) :
                   approved_by[j] = approved_by[k] => j = k
            /\ \A j \in 1..Len(approved_by) :
                   \/ approved_by[j] = escrow.user
                   \/ \E n \in 1..Len(escrow.participants) :
                          escrow.participants[n].account = approved_by[j]
            /\ approved_by # <<>> => escrow.milestones[i].completed

CompleteOutcome(caller, task_id, milestone_id) ==
    with_storage_layer(Storage, complete_milestone(Storage, caller, task_id, milestone_id))

\* C32: in every reachable state a milestone's approved_by list holds each
\* account at most once, only accounts that are the escrow's user or one of
\* its participants, and is non-empty only if the milestone is completed;
\* complete_milestone succeeds only for the assigned agent and only on a
\* milestone not completed before: by any other account it fails with
\* NotAssignedAgent, on a completed milestone with MilestoneAlreadyCompleted.
C32_ApprovalsWellFormed ==
    [][/\ ApprovalsWellFormed'
       /\ \A task_id \in DOMAIN escrows, who \in Signers,
             i \in 1..MaxMilestonesPerEscrow :
              (i <= Len(escrows[task_id].milestones)) =>
                  LET escrow == escrows[task_id]
                      milestone == escrow.milestones[i]
                      r == CompleteOutcome(who, task_id, milestone.id)
                  IN
                  /\ r.ok => /\ who = escrow.agent_account
                             /\ escrow.state = "Accepted"
                             /\ ~milestone.completed
                             /\ r.s.escrows[task_id].milestones[i].completed
                  /\ (escrow.state = "Accepted" /\ who # escrow.agent_account) =>
                         ~r.ok /\ r.err = "NotAssignedAgent" /\ r.s = Storage
                  /\ (escrow.state = "Accepted" /\ who = escrow.agent_account
                          /\ milestone.completed) =>
                         ~r.ok /\ r.err = "MilestoneAlreadyCompleted" /\ r.s = Storage
       /\ Dispatched("complete_milestone") =>
              LET task_id == last'.args[1] IN
              /\ last'.caller = escrows[task_id].agent_account
              /\ \E i \in 1..Len(escrows[task_id].milestones) :
                     /\ ~escrows[task_id].milestones[i].completed
                     /\ escrows'[task_id].milestones[i].completed]_vars

\* a completed milestone approved by the user and by a participant
C32_Witness ==
    /\ "t1" \in DOMAIN escrows
    /\ Len(escrows["t1"].milestones) = 1
    /\ escrows["t1"].milestones[1].completed
    /\ escrows["t1"].milestones[1].approved_by = <<"alice", "bob">>
    /\ escrows["t1"].user = "alice"
    /\ \E n \in 1..Len(escrows["t1"].participants) :
           escrows["t1"].participants[n].account = "bob"

(***************************************************************************)
(* Milestone paid once (SpecApproval).                                     *)
(***************************************************************************)
MilestonePaidEvents ==
    {n \in 1..Len(events') : events'[n].name = "MilestonePaid"}

\* C33: each milestone is paid out at most once: an approve_milestone on a
\* milestone that already had its required approvals, and so has been paid,
\* transfers nothing and deposits no MilestonePaid event.
C33_MilestonePaidOnce ==
    [][\A task_id \in Tasks, i \in 1..MaxMilestonesPerEscrow :
          (/\ Approved(task_id, i)
           /\ Len(escrows[task_id].milestones[i].approved_by)
                  >= escrows[task_id].milestones[i].required_approvals) =>
              /\ free' = free
              /\ reserved' = reserved
              /\ MilestonePaidEvents = {}]_vars

\* a milestone is paid no earlier than with its last required approval: an
\* approval that leaves the count below required_approvals moves no funds
C33_NoPaymentBelowThreshold ==
    [][\A task_id \in Tasks, i \in 1..MaxMilestonesPerEscrow :
          (/\ Approved(task_id, i)
           /\ Len(escrows'[task_id].milestones[i].approved_by)
                  < escrows[task_id].milestones[i].required_approvals) =>
              /\ free' = free
              /\ reserved' = reserved
              /\ MilestonePaidEvents = {}]_vars

(***************************************************************************)
(* Batches with a task id listed twice (Spec).                             *)
(***************************************************************************)
Listed(task_ids) == {task_ids[i] : i \in 1..Len(task_ids)}

NoDuplicates(task_ids) ==
    \A i, j \in 1..Len(task_ids) : task_ids[i] = task_ids[j] => i = j

\* the PaymentReleased events this step deposited for task_id
Releases(task_id) ==
    {n \in 1..Len(events') :
        events'[n].name = "PaymentReleased" /\ events'[n].task_id = task_id}

\* C34: batch_release_payment releases each escrow at most once: however
\* often a task id is listed, one payment is made to the agent for that
\* escrow, and the user's reserved balance drops by no more than the amounts
\* of the escrows listed.
C34_BatchReleasesOnce ==
    [][Dispatched("batch_release_payment") =>
          /\ \A task_id \in Listed(last'.args) : Cardinality(Releases(task_id)) = 1
          /\ reserved[last'.caller] - reserved'[last'.caller]
                 <= AmountSum(Listed(last'.args))]_vars

\* a batch_release_payment whose task ids are pairwise distinct pays each
\* listed escrow once
C34_DistinctBatchReleasesOnce ==
    [][(Dispatched("batch_release_payment") /\ NoDuplicates(last'.args)) =>
          /\ \A task_id \in Listed(last'.args) :
                 /\ Cardinality(Releases(task_id)) = 1
                 /\ escrows[task_id].state = "Accepted"
                 /\ escrows'[task_id].state = "Completed"
          /\ reserved[last'.caller] - reserved'[last'.caller]
                 <= AmountSum(Listed(last'.args))]_vars

\* the escrows a step stored under task ids that were free before it
Stored == (DOMAIN escrows') \ (DOMAIN escrows)

RECURSIVE AmountsOf(_, _)
\* the sum of the amounts that the escrow map holds under the task ids of S
AmountsOf(map, S) ==
    IF S = {} THEN 0
    ELSE LET t == CHOOSE x \in S : TRUE IN map[t].amount + AmountsOf(map, S \ {t})

StoredAmount == AmountsOf(escrows', Stored)

\* C35: batch_create_escrow never overwrites an escrow and reserves from
\* the caller exactly the sum of the amounts of the escrows it stores, also
\* when a task id appears twice in the batch.
C35_BatchCreateReservesWhatItStores ==
    [][Dispatched("batch_create_escrow") =>
          /\ \A task_id \in DOMAIN escrows : escrows'[task_id] = escrows[task_id]
          /\ reserved'[last'.caller] - reserved[last'.caller] = StoredAmount
          /\ free[last'.caller] - free'[last'.caller] = StoredAmount
          /\ Len(userEscrows'[last'.caller]) - Len(userEscrows[last'.caller])
                 = Cardinality(Stored)]_vars

\* a batch_create_escrow whose task ids are pairwise distinct stores one
\* Pending escrow per request, overwrites none and reserves their sum
C35_DistinctBatchCreate ==
    [][(Dispatched("batch_create_escrow") /\ NoDuplicates(last'.args)) =>
          /\ \A task_id \in DOMAIN escrows : escrows'[task_id] = escrows[task_id]
          /\ Stored = Listed(last'.args)
          /\ \A task_id \in Stored :
                 /\ escrows'[task_id].state = "Pending"
                 /\ escrows'[task_id].user = last'.caller
          /\ reserved'[last'.caller] - reserved[last'.caller] = StoredAmount
          /\ free[last'.caller] - free'[last'.caller] = StoredAmount]_vars

(***************************************************************************)
(* Agent cards and DID controllers (SpecRegistry).                         *)
(***************************************************************************)
CardCalls == {"register_agent", "update_agent", "deregister_agent"}

\* C36: an AgentCard is only created, updated or deregistered by the
\* controller of its DID: a register_agent, update_agent or deregister_agent
\* that succeeds was called by the controller of the DID it names.
C36_OnlyControllerManagesCard ==
    [][(last'.call \in CardCalls /\ last'.ok) =>
          LET did == last'.args[1] IN
          /\ did \in DOMAIN didDocuments
          /\ last'.caller = didDocuments[did].controller]_vars

\* what the registry does check: register_agent succeeds only for an active
\* DID without a card, update_agent only on an active card, deregister_agent
\* only on a stored card; and no call touches the card of another DID
C36_CardCallsCheckTheCard ==
    [][(last'.call \in CardCalls /\ last'.ok) =>
          LET did == last'.args[1] IN
          /\ last'.call = "register_agent" =>
                 /\ is_did_active(Storage, did)
                 /\ did \notin DOMAIN agentCards
                 /\ agentCards'[did].active
          /\ last'.call = "update_agent" =>
                 /\ did \in DOMAIN agentCards
                 /\ agentCards[did].active /\ agentCards'[did].active
          /\ last'.call = "deregister_agent" =>
                 /\ did \in DOMAIN agentCards
                 /\ ~agentCards'[did].active
          /\ \A other \in DOMAIN agentCards :
                 other # did => agentCards'[other] = agentCards[other]]_vars

(***************************************************************************)
(* The block window of an escrow created from a template (SpecTimeout).    *)
(***************************************************************************)
\* the timeout of a create_escrow_from_template call: the caller's override,
\* else the default of the template, else DefaultTimeout
EffectiveTimeout(template_id, timeout_override) ==
    IF timeout_override.some THEN timeout_override.v
    ELSE IF escrowTemplates[template_id].default_params.default_timeout.some
    THEN escrowTemplates[template_id].default_params.default_timeout.v
    ELSE DefaultTimeout

\* C37: an escrow created by create_escrow_from_template has expires_at =
\* created_at + its effective timeout, the same expires_at that create_escrow
\* with that timeout gives in the same state
C37_TemplateEscrowWindow ==
    [][Dispatched("create_escrow_from_template") =>
          LET task_id == last'.args[1]
              timeout == EffectiveTimeout(last'.args[3], last'.args[4])
              direct == create_escrow(Storage, last'.caller, task_id, last'.args[2],
                                      Some(timeout))
              made == escrows'[task_id]
          IN /\ direct.ok
             /\ made.expires_at = made.created_at + timeout
             /\ made.expires_at = direct.s.escrows[task_id].expires_at]_vars

\* the window in the code: create_escrow gives created_at plus a timeout; from
\* a template the override or the default of the template is itself the block
\* of expiry, and only without both is it created_at + DefaultTimeout
C37_TemplateTimeoutIsABlock ==
    [][/\ Dispatched("create_escrow") =>
              LET made == escrows'[last'.args[1]] IN
              made.expires_at - made.created_at
                  \in {TimeoutOr(timeout) : timeout \in TemplateTimeouts}
       /\ Dispatched("create_escrow_from_template") =>
              LET made == escrows'[last'.args[1]]
                  default_timeout ==
                      escrowTemplates[last'.args[3]].default_params.default_timeout
              IN /\ made.created_at = now
                 /\ made.expires_at =
                        IF last'.args[4].some \/ default_timeout.some
                        THEN EffectiveTimeout(last'.args[3], last'.args[4])
                        ELSE now + DefaultTimeout]_vars

(***************************************************************************)
(* The winner's payment (SpecAuction).                                     *)
(***************************************************************************)
BidderDids(id) == {auctions[id].bids[i].agent_did : i \in 1..Len(auctions[id].bids)}

\* C38: in every Finalized auction the winner is one of the bidders of the
\* auction and payment_amount is at least the amount the winner bid
C38_WinnerIsPaidItsBid ==
    \A id \in DOMAIN auctions :
        Finalized(id) =>
            /\ auctions[id].winner.some /\ auctions[id].payment_amount.some
            /\ auctions[id].winner.v \in BidderDids(id)
            /\ \A i \in 1..Len(auctions[id].bids) :
                   auctions[id].bids[i].agent_did = auctions[id].winner.v =>
                       auctions[id].payment_amount.v >= auctions[id].bids[i].amount

\* an auction just finalized whose winner, not the first bidder, is paid more
\* than it bid
C38_Witness ==
    \E id \in DOMAIN auctions :
        /\ Finalized(id)
        /\ last.call = "finalize_auction" /\ last.ok
        /\ Len(auctions[id].bids) >= 2
        /\ auctions[id].winner.v # auctions[id].bids[1].agent_did
        /\ auctions[id].payment_amount.v > auctions[id].bids[WinnerIndex(id)].amount

(***************************************************************************)
(* One bid per bidder (SpecAuction).                                       *)
(***************************************************************************)
\* amounts of a further bid: below MinimumBidAmount, and two accepted ones
SecondBidAmounts == {MinimumBidAmount - 1, MinimumBidAmount, 150}

\* auction id takes bids in this block
TakesBids(id) == auctions[id].status = "Open" /\ now < auctions[id].ends_at

AuctionsWellFormed(auction_map, next_auction_id) ==
    /\ DOMAIN auction_map = 0..(next_auction_id - 1)
    /\ \A id \in DOMAIN auction_map :
           /\ auction_map[id].auction_id = id
           /\ auction_map[id].winner.some <=> auction_map[id].status = "Finalized"
           /\ auction_map[id].payment_amount.some <=>
                  auction_map[id].status = "Finalized"

\* C40: the status of an auction changes only Open -> Finalized, by
\* finalize_auction, or Open -> Cancelled, by cancel_auction on an auction
\* without bids; a Finalized or Cancelled auction never changes; winner and
\* payment_amount are set exactly in Finalized auctions; create_auction
\* gives the ids 0, 1, 2, ... and NextAuctionId is the number of auctions
C40_AuctionLifecycle ==
    [][/\ AuctionsWellFormed(auctions', nextAuctionId')
       /\ \A id \in DOMAIN auctions :
              /\ id \in DOMAIN auctions'
              /\ auctions[id].status # "Open" => auctions'[id] = auctions[id]
              /\ auctions'[id].status # auctions[id].status =>
                     /\ last'.args = <<id>>
                     /\ \/ /\ auctions'[id].status = "Finalized"
                           /\ Dispatched("finalize_auction")
                        \/ /\ auctions'[id].status = "Cancelled"
                           /\ Dispatched("cancel_auction")
                           /\ auctions[id].bids = <<>>
       /\ Dispatched("create_auction") <=> nextAuctionId' # nextAuctionId
       /\ Dispatched("create_auction") =>
              /\ nextAuctionId' = nextAuctionId + 1
              /\ DOMAIN auctions' = DOMAIN auctions \cup {nextAuctionId}
              /\ auctions'[nextAuctionId].status = "Open"]_vars

\* three auctions created: one finalized, one cancelled, one open with a bid
\* that a cancel_auction leaves as it is
C40_Witness ==
    /\ nextAuctionId = 3
    /\ \E f, c, o \in DOMAIN auctions :
           /\ auctions[f].status = "Finalized"
           /\ auctions[c].status = "Cancelled"
           /\ auctions[o].status = "Open" /\ auctions[o].bids # <<>>
           /\ ~cancel_auction(Storage, "ben", o).ok
           /\ ~finalize_auction(Storage, "ben", f).ok
           /\ ~cancel_auction(Storage, "ben", f).ok
           /\ ~finalize_auction(Storage, "ben", c).ok

====
